---------------------------- MODULE Spec2Model ----------------------------
(***************************************************************************)
(* A model of the data pipeline of the report generator:                   *)
(*   src/data_processor.py  clean_data, detect_financial_structure         *)
(*   src/nlp_analyzer.py    the field classifier and the insight engine    *)
(*   src/visualizer.py      the chart generators                           *)
(*                                                                         *)
(* Python strings are sequences of one-character strings, so that strip,   *)
(* lower, replace, isdigit and the substring test are computed character   *)
(* by character.  A dict is a sequence of (key, val) entries with distinct *)
(* keys, in insertion order.  Every specification draws its input in Init  *)
(* and its actions apply the functions under study.                        *)
(***************************************************************************)
EXTENDS Integers, Sequences, FiniteSets, TLC

VARIABLES pc, data, result, prev

vars == <<pc, data, result, prev>>

(***************************************************************************)
(* Strings                                                                 *)
(***************************************************************************)

\* The characters str.strip() removes (the model's alphabet holds two).
Whitespace == {" ", "\t"}

Digits == <<"0", "1", "2", "3", "4", "5", "6", "7", "8", "9">>

DigitSet == {Digits[i] : i \in 1..10}

\* The upper-case letters of the model's alphabet and their lower-case forms.
UpperChars == <<"A", "B", "D", "S">>

LowerChars == <<"a", "b", "d", "s">>

LowerChar(c) ==
    IF \E i \in 1..Len(UpperChars) : UpperChars[i] = c
    THEN LowerChars[CHOOSE i \in 1..Len(UpperChars) : UpperChars[i] = c]
    ELSE c

\* str.lower()
Lower(s) == [i \in 1..Len(s) |-> LowerChar(s[i])]

RECURSIVE LStrip(_)
LStrip(s) ==
    IF s # <<>> /\ Head(s) \in Whitespace THEN LStrip(Tail(s)) ELSE s

RECURSIVE RStrip(_)
RStrip(s) ==
    IF s # <<>> /\ s[Len(s)] \in Whitespace
    THEN RStrip(SubSeq(s, 1, Len(s) - 1))
    ELSE s

\* str.strip()
Strip(s) == RStrip(LStrip(s))

\* str.replace(a, b) for one-character a and b
Replace(s, a, b) == [i \in 1..Len(s) |-> IF s[i] = a THEN b ELSE s[i]]

\* str.replace(a, b, 1): only the first occurrence
ReplaceFirst(s, a, b) ==
    IF \E i \in 1..Len(s) : s[i] = a
    THEN LET j == CHOOSE i \in 1..Len(s) :
                    s[i] = a /\ \A h \in 1..(i - 1) : s[h] # a
         IN  [i \in 1..Len(s) |-> IF i = j THEN b ELSE s[i]]
    ELSE s

\* str.replace(c, '', 1)
RemoveFirst(s, c) ==
    IF \E i \in 1..Len(s) : s[i] = c
    THEN LET j == CHOOSE i \in 1..Len(s) :
                    s[i] = c /\ \A h \in 1..(i - 1) : s[h] # c
         IN  SubSeq(s, 1, j - 1) \o SubSeq(s, j + 1, Len(s))
    ELSE s

\* str.isdigit(): non-empty and every character a digit
IsDigit(s) == s # <<>> /\ \A i \in 1..Len(s) : s[i] \in DigitSet

\* `t in s` for strings
Contains(s, t) ==
    \E i \in 0..(Len(s) - Len(t)) : \A j \in 1..Len(t) : s[i + j] = t[j]

\* any(name in s for name in names)
ContainsAny(s, names) == \E i \in 1..Len(names) : Contains(s, names[i])

DigitVal(c) == (CHOOSE i \in 1..10 : Digits[i] = c) - 1

RECURSIVE DigitsVal(_)
DigitsVal(s) ==
    IF s = <<>> THEN 0
    ELSE 10 * DigitsVal(SubSeq(s, 1, Len(s) - 1)) + DigitVal(s[Len(s)])

\* The part of a numeric string before its decimal point.
IntPart(s) ==
    IF \E i \in 1..Len(s) : s[i] = "."
    THEN SubSeq(s, 1, (CHOOSE i \in 1..Len(s) : s[i] = ".") - 1)
    ELSE s

\* float(s) of a string that passed the numeric test.  The numeric strings of
\* this model have no fractional digit other than 0, so the float is the
\* integer before the point.
StrToFloat(s) == DigitsVal(IntPart(s))

(***************************************************************************)
(* Values, dicts and lists                                                 *)
(***************************************************************************)

PyInt(n) == [k |-> "int", n |-> n, s |-> <<>>]

PyFloat(n) == [k |-> "float", n |-> n, s |-> <<>>]

PyStr(s) == [k |-> "str", n |-> 0, s |-> s]

\* None
Null == [k |-> "null", n |-> 0, s |-> <<>>]

\* float('nan'), the missing-value sentinel of the decoders
NaN == [k |-> "nan", n |-> 0, s |-> <<>>]

Entry(key, val) == [key |-> key, val |-> val]

Dict(d) == [t |-> "dict", d |-> d]

\* Two items that are not records: None, and a list
NoneItem == [t |-> "none", d |-> <<>>]

ListItem == [t |-> "list", d |-> <<>>]

List(items) == [t |-> "list", items |-> items]

\* A value that is not a list (a number, a mapping, None)
NonList == [t |-> "other", items |-> <<>>]

Ok(v) == [exc |-> FALSE, val |-> v]

\* An exception propagating out of a call
Raised == [exc |-> TRUE, val |-> NonList]

Keys(d) == [i \in 1..Len(d) |-> d[i].key]

HasKey(d, key) == \E i \in 1..Len(d) : d[i].key = key

Get(d, key) == d[CHOOSE i \in 1..Len(d) : d[i].key = key].val

\* d[key] = val: an existing key keeps its place
SetItem(d, key, val) ==
    IF HasKey(d, key)
    THEN [i \in 1..Len(d) |-> IF d[i].key = key THEN Entry(key, val) ELSE d[i]]
    ELSE Append(d, Entry(key, val))

(***************************************************************************)
(* src/data_processor.py: clean_data                                       *)
(***************************************************************************)

\* value.replace('.', '', 1).isdigit()
is_digit_string(v) == v.k = "str" /\ IsDigit(RemoveFirst(v.s, "."))

\* pd.isna(value)
isna(v) == v.k \in {"null", "nan"}

clean_key_first_only(key) == ReplaceFirst(Lower(Strip(key)), " ", "_")

clean_key(key) == Replace(Lower(Strip(key)), " ", "_")

clean_value(v) ==
    IF isna(v) THEN Null
    ELSE IF is_digit_string(v) THEN PyFloat(StrToFloat(v.s))
    ELSE v

RECURSIVE clean_item(_, _)
clean_item(entries, acc) ==
    IF entries = <<>> THEN acc
    ELSE clean_item(Tail(entries),
                    SetItem(acc, clean_key(Head(entries).key),
                            clean_value(Head(entries).val)))

clean_data(d) ==
    IF d.t # "list" THEN Ok(d)
    ELSE IF \E i \in 1..Len(d.items) : d.items[i].t # "dict" THEN Raised
    ELSE Ok(List([i \in 1..Len(d.items) |->
                    Dict(clean_item(d.items[i].d, <<>>))]))

(***************************************************************************)
(* SpecClean: clean_data applied once and then to its own output           *)
(***************************************************************************)

MaxKeyLen == 4

PairKeyLen == 2

MaxCleanRecs == 3

KeyChars == {"a", "B", " ", "\t"}

KeysUpTo(n) == UNION {[1..m -> KeyChars] : m \in 0..n}

CleanVals == {PyInt(1), PyStr(<<"7">>), PyStr(<<"7", ".", "0">>), PyStr(<<"x">>), Null, NaN}

CleanPairVals == {PyInt(1), PyStr(<<"7">>), PyStr(<<"x">>), NaN}

CleanSmallRecs ==
    {Dict(<<Entry(key, v)>>) : key \in {<<"a">>, <<"B", " ">>, <<" ", "a">>},
                               v \in {PyInt(1), PyStr(<<"7">>), NaN}}

\* one record with one entry, every key up to MaxKeyLen
CleanSingle(d) ==
    \E key \in KeysUpTo(MaxKeyLen), v \in CleanVals :
        d = List(<<Dict(<<Entry(key, v)>>)>>)

\* one record with two entries, whose keys may collide once cleaned
CleanPair(d) ==
    \E k1, k2 \in KeysUpTo(PairKeyLen), v1, v2 \in CleanPairVals :
        /\ k1 # k2
        /\ d = List(<<Dict(<<Entry(k1, v1), Entry(k2, v2)>>)>>)

\* lists of several records, and the empty list
CleanMany(d) ==
    \E n \in 0..MaxCleanRecs : \E l \in [1..n -> CleanSmallRecs] : d = List(l)

InitClean ==
    /\ pc = "start"
    /\ \/ CleanSingle(data)
       \/ CleanPair(data)
       \/ CleanMany(data)
       \/ data = NonList
    /\ result = Raised
    /\ prev = Raised

CleanOnce ==
    /\ pc = "start"
    /\ result' = clean_data(data)
    /\ pc' = IF result'.exc THEN "done" ELSE "cleaned"
    /\ UNCHANGED <<data, prev>>

CleanTwice ==
    /\ pc = "cleaned"
    /\ prev' = result
    /\ result' = clean_data(result.val)
    /\ pc' = "recleaned"
    /\ UNCHANGED data

NextClean == CleanOnce \/ CleanTwice

SpecClean == InitClean /\ [][NextClean]_vars

\* C7: clean_data is idempotent: cleaning the cleaned records returns the very
\* same records, keys (trim, lowercase, spaces to underscores) and values
\* (missing to null, numeric strings to numbers) alike.
C7_CleanIdempotent == pc = "recleaned" => result = prev

\* A record whose key and whose value the first cleaning both changed.
C7_Witness ==
    /\ pc = "recleaned"
    /\ data.t = "list" /\ Len(data.items) = 1 /\ Len(data.items[1].d) = 1
    /\ data.items[1].d[1].key # prev.val.items[1].d[1].key
    /\ Contains(prev.val.items[1].d[1].key, <<"_">>)
    /\ data.items[1].d[1].val.k = "str"
    /\ prev.val.items[1].d[1].val.k = "float"

(***************************************************************************)
(* Field-name substrings (src/data_processor.py, src/nlp_analyzer.py)      *)
(***************************************************************************)

s_revenue == <<"r", "e", "v", "e", "n", "u", "e">>

s_sales == <<"s", "a", "l", "e", "s">>

s_income == <<"i", "n", "c", "o", "m", "e">>

s_earnings == <<"e", "a", "r", "n", "i", "n", "g", "s">>

s_amt == <<"a", "m", "t">>

s_amount == <<"a", "m", "o", "u", "n", "t">>

s_total == <<"t", "o", "t", "a", "l">>

s_expenses == <<"e", "x", "p", "e", "n", "s", "e", "s">>

s_costs == <<"c", "o", "s", "t", "s">>

s_expenditure == <<"e", "x", "p", "e", "n", "d", "i", "t", "u", "r", "e">>

s_expense == <<"e", "x", "p", "e", "n", "s", "e">>

s_profit == <<"p", "r", "o", "f", "i", "t">>

s_net_income == <<"n", "e", "t", "_", "i", "n", "c", "o", "m", "e">>

s_net_profit == <<"n", "e", "t", "_", "p", "r", "o", "f", "i", "t">>

s_gross_profit == <<"g", "r", "o", "s", "s", "_", "p", "r", "o", "f", "i", "t">>

s_date == <<"d", "a", "t", "e">>

s_period == <<"p", "e", "r", "i", "o", "d">>

s_month == <<"m", "o", "n", "t", "h">>

s_year == <<"y", "e", "a", "r">>

s_quarter == <<"q", "u", "a", "r", "t", "e", "r">>

s_category == <<"c", "a", "t", "e", "g", "o", "r", "y">>

s_department == <<"d", "e", "p", "a", "r", "t", "m", "e", "n", "t">>

s_division == <<"d", "i", "v", "i", "s", "i", "o", "n">>

s_segment == <<"s", "e", "g", "m", "e", "n", "t">>

s_product_line == <<"p", "r", "o", "d", "u", "c", "t", "_", "l", "i", "n", "e">>

s_product == <<"p", "r", "o", "d", "u", "c", "t">>

s_day == <<"d", "a", "y">>

s_week == <<"w", "e", "e", "k">>

s_type == <<"t", "y", "p", "e">>

s_region == <<"r", "e", "g", "i", "o", "n">>

s_country == <<"c", "o", "u", "n", "t", "r", "y">>

(***************************************************************************)
(* src/data_processor.py: detect_financial_structure                       *)
(***************************************************************************)

\* The canonical targets in declaration order, each with its substrings.
financial_fields ==
    << [type |-> s_revenue,
        names |-> <<s_revenue, s_sales, s_income, s_earnings, s_amt, s_amount, s_total>>],
       [type |-> s_expenses,
        names |-> <<s_expenses, s_costs, s_expenditure, s_expense>>],
       [type |-> s_profit,
        names |-> <<s_profit, s_net_income, s_net_profit, s_gross_profit>>],
       [type |-> s_date,
        names |-> <<s_date, s_period, s_month, s_year, s_quarter>>],
       [type |-> s_category,
        names |-> <<s_category, s_department, s_division, s_segment,
                    s_product_line, s_product>>] >>

\* any(name in key.lower() for name in possible_names)
matches_target(key, t) == ContainsAny(Lower(key), financial_fields[t].names)

\* The inner loop with its break: the first key of the sample, from the
\* i-th on, that matches; 0 when none does.
RECURSIVE first_matching_from(_, _, _)
first_matching_from(keys, t, i) ==
    IF i > Len(keys) THEN 0
    ELSE IF matches_target(keys[i], t) THEN i
    ELSE first_matching_from(keys, t, i + 1)

first_matching_key(keys, t) == first_matching_from(keys, t, 1)

\* A mapping in which a key, once mapped, keeps its first target
RECURSIVE build_field_mapping_keeping(_, _, _)
build_field_mapping_keeping(keys, t, acc) ==
    IF t > Len(financial_fields) THEN acc
    ELSE LET hit == first_matching_key(keys, t)
         IN  build_field_mapping_keeping(keys, t + 1,
                IF hit = 0 \/ HasKey(acc, keys[hit]) THEN acc
                ELSE SetItem(acc, keys[hit], financial_fields[t].type))

\* field_mapping[key] = field_type, target after target: a key that is the
\* first match of two targets keeps one entry, holding the later target.
RECURSIVE build_field_mapping(_, _, _)
build_field_mapping(keys, t, acc) ==
    IF t > Len(financial_fields) THEN acc
    ELSE LET hit == first_matching_key(keys, t)
         IN  build_field_mapping(keys, t + 1,
                IF hit = 0 THEN acc
                ELSE SetItem(acc, keys[hit], financial_fields[t].type))

field_mapping_of(sample) == build_field_mapping(Keys(sample), 1, <<>>)

enough_fields_off_by_one(mapping) == Len(mapping) > 2

\* not (len(field_mapping) < 2)
enough_fields(mapping) == Len(mapping) >= 2

\* for orig_key, normalized_key in field_mapping.items(): ...
RECURSIVE copy_mapped(_, _, _)
copy_mapped(item, mapping, acc) ==
    IF mapping = <<>> THEN acc
    ELSE copy_mapped(item, Tail(mapping),
            IF HasKey(item, Head(mapping).key)
            THEN SetItem(acc, Head(mapping).val, Get(item, Head(mapping).key))
            ELSE acc)

\* A copy that leaves a name the mapping has filled as it is
RECURSIVE copy_unmapped_keeping(_, _, _)
copy_unmapped_keeping(entries, mapping, acc) ==
    IF entries = <<>> THEN acc
    ELSE copy_unmapped_keeping(Tail(entries), mapping,
            IF HasKey(mapping, Head(entries).key) \/ HasKey(acc, Head(entries).key) THEN acc
            ELSE SetItem(acc, Head(entries).key, Head(entries).val))

\* for key, value in item.items(): if key not in field_mapping: ...
RECURSIVE copy_unmapped(_, _, _)
copy_unmapped(entries, mapping, acc) ==
    IF entries = <<>> THEN acc
    ELSE copy_unmapped(Tail(entries), mapping,
            IF HasKey(mapping, Head(entries).key) THEN acc
            ELSE SetItem(acc, Head(entries).key, Head(entries).val))

normalize_item(item, mapping) ==
    copy_unmapped(item, mapping, copy_mapped(item, mapping, <<>>))

detect_financial_structure(d) ==
    IF d.t # "list" \/ d.items = <<>> THEN Ok(d)
    ELSE IF d.items[1].t # "dict" THEN Raised
    ELSE LET mapping == field_mapping_of(d.items[1].d)
         IN  IF ~enough_fields(mapping) THEN Ok(d)
             ELSE IF \E i \in 1..Len(d.items) : d.items[i].t # "dict" THEN Raised
             ELSE Ok(List([i \in 1..Len(d.items) |->
                             Dict(normalize_item(d.items[i].d, mapping))]))

(***************************************************************************)
(* SpecFin: detect_financial_structure on a list of records                *)
(***************************************************************************)

MaxFinFields == 3

MaxFinRecs == 2

s_x == <<"x">>

s_Date == <<"D", "a", "t", "e">>

s_sales_date == <<"s", "a", "l", "e", "s", "_", "d", "a", "t", "e">>

s_cost == <<"c", "o", "s", "t">>

\* A key matching no target (x, cost), one target (sales, revenue, Date,
\* costs, product) or two targets at once (sales_date, net_income).
FinKeys ==
    {s_x, s_cost, s_sales, s_revenue, s_Date, s_costs, s_product,
     s_sales_date, s_net_income}

\* The first record: distinct keys in any order, the i-th holding i.
FinKeySeqs ==
    UNION {{q \in [1..n -> FinKeys] : \A i, j \in 1..n : i # j => q[i] # q[j]}
           : n \in 0..MaxFinFields}

FinFirstRecs ==
    {Dict([i \in 1..Len(q) |-> Entry(q[i], PyInt(i))]) : q \in FinKeySeqs}

\* Later records: some lack a field of the first, some hold another.
FinOtherRecs ==
    {Dict(<<Entry(s_sales, PyInt(7))>>),
     Dict(<<Entry(s_sales_date, PyInt(7)), Entry(s_x, PyInt(8))>>),
     Dict(<<Entry(s_revenue, PyInt(7)), Entry(s_sales, PyInt(8))>>),
     Dict(<<Entry(s_Date, PyInt(7)), Entry(s_date, PyInt(8)), Entry(s_costs, PyInt(9))>>)}

InitFin ==
    /\ pc = "start"
    /\ \/ data \in {List(<<>>), NonList}
       \/ \E n \in 0..(MaxFinRecs - 1) :
             \E first \in FinFirstRecs, rest \in [1..n -> FinOtherRecs] :
                data = List(<<first>> \o rest)
    /\ result = Raised
    /\ prev = Raised

DetectFinancialStructure ==
    /\ pc = "start"
    /\ result' = detect_financial_structure(data)
    /\ pc' = "done"
    /\ UNCHANGED <<data, prev>>

NextFin == DetectFinancialStructure

SpecFin == InitFin /\ [][NextFin]_vars

Targets == 1..Len(financial_fields)

\* The canonical targets with a matching field name in the first record.
MatchedTargets(sample) ==
    {t \in Targets : \E i \in 1..Len(sample) : matches_target(sample[i].key, t)}

\* For each target the first field of the first record whose lowercased
\* name contains one of its substrings (0: none).
FirstMatches(sample) ==
    [t \in Targets |-> first_matching_key(Keys(sample), t)]

\* The fields of the first record that some target claims.
ClaimedFields(sample) ==
    LET fm == FirstMatches(sample)
    IN  {sample[fm[t]].key : t \in {u \in Targets : fm[u] # 0}}

CanonicalNames == {financial_fields[t].type : t \in Targets}

\* out is item remapped: every claimed field of the item has gone to the
\* canonical name of a target claiming it, every other field is kept, and
\* nothing else is there.
IsRemapped(sample, fm, claimed, item, out) ==
    /\ \A i \in 1..Len(item) :
          IF item[i].key \in claimed
          THEN \E t \in Targets :
                  /\ fm[t] # 0
                  /\ sample[fm[t]].key = item[i].key
                  /\ HasKey(out, financial_fields[t].type)
          ELSE HasKey(out, item[i].key) /\ Get(out, item[i].key) = item[i].val
    /\ \A i \in 1..Len(item) :
          (item[i].key \in claimed /\ item[i].key \notin CanonicalNames)
              => ~HasKey(out, item[i].key)
    /\ \A j \in 1..Len(out) :
          \/ out[j].key \in CanonicalNames
          \/ \E i \in 1..Len(item) : item[i].key = out[j].key

AllRemapped(d, out) ==
    LET sample == d.items[1].d
        fm == FirstMatches(sample)
        claimed == ClaimedFields(sample)
    IN  /\ out.t = "list"
        /\ Len(out.items) = Len(d.items)
        /\ \A i \in 1..Len(d.items) :
              IsRemapped(sample, fm, claimed, d.items[i].d, out.items[i].d)

FinCase == pc = "done" /\ ~result.exc /\ data.t = "list" /\ data.items # <<>>

C6_WitnessUnchanged ==
    /\ FinCase
    /\ Cardinality(ClaimedFields(data.items[1].d)) = 1
    /\ Cardinality(MatchedTargets(data.items[1].d)) = 1
    /\ result.val = data

(***************************************************************************)
(* src/nlp_analyzer.py: the field classifier                               *)
(***************************************************************************)

\* isinstance(value, (int, float)) or
\* (isinstance(value, str) and value.replace('.', '', 1).isdigit())
is_numeric_value(v) == v.k \in {"int", "float", "nan"} \/ is_digit_string(v)

\* `field in item` raises TypeError for None; a list holds no field name
membership_raises(item) == item.t = "none"

\* field in item and item[field] is numeric, for an item `in` works on
present_and_numeric(item, field) ==
    /\ item.t = "dict"
    /\ HasKey(item.d, field)
    /\ is_numeric_value(Get(item.d, field))

numeric_count(items, field) ==
    Cardinality({i \in 1..Len(items) : present_and_numeric(items[i], field)})

meets_threshold_strict(count, n) == 5 * count > 4 * n

\* numeric_count / len(data) >= 0.8; the quotient of two integers below 200
\* is at least the float 0.8 exactly when 5 * count >= 4 * len(data)
meets_threshold(count, n) == 5 * count >= 4 * n

\* the keys of the first record whose value there is numeric
numeric_candidates(sample) ==
    SelectSeq(Keys(sample), LAMBDA key : is_numeric_value(Get(sample, key)))

identify_numeric_fields(items) ==
    IF items = <<>> THEN Ok(<<>>)
    ELSE IF items[1].t # "dict" THEN Raised
    ELSE LET candidates == numeric_candidates(items[1].d)
         IN  IF candidates # <<>> /\ \E i \in 1..Len(items) : membership_raises(items[i])
             THEN Raised
             ELSE Ok(SelectSeq(candidates,
                        LAMBDA field :
                            meets_threshold(numeric_count(items, field), Len(items))))

date_indicators == <<s_date, s_period, s_month, s_year, s_quarter, s_day, s_week>>

category_indicators ==
    <<s_category, s_type, s_department, s_division, s_segment, s_product,
      s_region, s_country>>

identify_date_fields(items) ==
    IF items = <<>> THEN Ok(<<>>)
    ELSE IF items[1].t # "dict" THEN Raised
    ELSE Ok(SelectSeq(Keys(items[1].d),
                LAMBDA key : ContainsAny(Lower(key), date_indicators)))

identify_category_fields(items) ==
    IF items = <<>> THEN Ok(<<>>)
    ELSE IF items[1].t # "dict" THEN Raised
    ELSE Ok(SelectSeq(Keys(items[1].d),
                LAMBDA key : ContainsAny(Lower(key), category_indicators)))

(***************************************************************************)
(* SpecClassify: identify_numeric_fields on a list of records              *)
(***************************************************************************)

MaxClassifyRecs == 10

MaxMixedRecs == 3

s_v == <<"v">>

s_w == <<"w">>

\* Long lists over one field: numeric, not numeric, or absent
LongRecs == {Dict(<<Entry(s_v, PyInt(1))>>), Dict(<<Entry(s_v, PyStr(s_x))>>), Dict(<<>>)}

\* A value of each kind: numbers, strings that pass the digit test ("7",
\* "7." and "7.0"), strings that fail it (".", "1.2.3", "" and "x"), None
MixedVals ==
    {PyInt(1), PyFloat(2), PyStr(<<"7">>), PyStr(<<"7", ".">>), PyStr(<<"7", ".", "0">>),
     PyStr(<<".">>), PyStr(<<"1", ".", "2", ".", "3">>), PyStr(<<>>), PyStr(s_x), Null}

\* Short lists over two fields, the first of every kind or absent
MixedRecs ==
    {Dict(<<Entry(s_v, a)>>) : a \in MixedVals}
    \cup {Dict(<<Entry(s_w, PyInt(2))>>), Dict(<<>>)}
    \cup {Dict(<<Entry(s_w, b), Entry(s_v, a)>>) :
            a \in {PyInt(1), PyStr(<<"7">>), PyStr(s_x)}, b \in {PyInt(2), PyStr(s_x)}}

InitClassify ==
    /\ pc = "start"
    /\ \/ \E n \in 1..MaxClassifyRecs : \E l \in [1..n -> LongRecs] : data = List(l)
       \/ \E n \in 0..MaxMixedRecs : \E l \in [1..n -> MixedRecs] : data = List(l)
    /\ result = Raised
    /\ prev = Raised

IdentifyNumericFields ==
    /\ pc = "start"
    /\ result' = identify_numeric_fields(data.items)
    /\ pc' = "done"
    /\ UNCHANGED <<data, prev>>

NextClassify == IdentifyNumericFields

SpecClassify == InitClassify /\ [][NextClassify]_vars

\* A number, or a string of digits with at most one decimal point
NumberLike(v) ==
    \/ v.k \in {"int", "float"}
    \/ /\ v.k = "str"
       /\ \E i \in 1..Len(v.s) : v.s[i] \in DigitSet
       /\ \A i \in 1..Len(v.s) : v.s[i] \in DigitSet \cup {"."}
       /\ Cardinality({i \in 1..Len(v.s) : v.s[i] = "."}) <= 1

\* The records in which the field is present with a number-like value
NumberLikeCount(items, field) ==
    Cardinality({i \in 1..Len(items) :
                    HasKey(items[i].d, field) /\ NumberLike(Get(items[i].d, field))})

AllFieldNames(items) ==
    UNION {{items[i].d[j].key : j \in 1..Len(items[i].d)} : i \in 1..Len(items)}

Returned(r) == {r[i] : i \in 1..Len(r)}

\* C5: identify_numeric_fields returns a field if and only if its value in
\* the first record is number-like and the records holding it with a
\* number-like value are at least 80% of all records.
C5_NumericIffThreshold ==
    (pc = "done" /\ data.items # <<>>) =>
        /\ ~result.exc
        /\ \A f \in AllFieldNames(data.items) :
              f \in Returned(result.val) <=>
                  /\ HasKey(data.items[1].d, f)
                  /\ NumberLike(Get(data.items[1].d, f))
                  /\ 10 * NumberLikeCount(data.items, f) >= 8 * Len(data.items)

\* Numeric in exactly 8 of 10 records: classified Numeric.
C5_Witness ==
    /\ pc = "done"
    /\ Len(data.items) = 10
    /\ NumberLikeCount(data.items, s_v) = 8
    /\ Returned(result.val) = {s_v}

\* Numeric in 7 of 10 records, the first among them: not classified.
C5_WitnessBelow ==
    /\ pc = "done"
    /\ Len(data.items) = 10
    /\ NumberLikeCount(data.items, s_v) = 7
    /\ HasKey(data.items[1].d, s_v) /\ NumberLike(Get(data.items[1].d, s_v))
    /\ result.val = <<>>

(***************************************************************************)
(* Numbers.  Every number of a record is an integer here, so the floats    *)
(* the analyzer computes are quotients of integers: a quotient is a pair   *)
(* <<p, q>> with q > 0, compared by cross-multiplication and rounded only  *)
(* where the code formats it.                                              *)
(***************************************************************************)

Rat(p, q) == <<p, q>>

RLess(a, b) == a[1] * b[2] < b[1] * a[2]

RAdd(a, b) == <<a[1] * b[2] + b[1] * a[2], a[2] * b[2]>>

RSub(a, b) == <<a[1] * b[2] - b[1] * a[2], a[2] * b[2]>>

RPositive(a) == a[1] > 0

RZero == <<0, 1>>

\* ((a - b) / b) * 100 for b > 0
PercentOver(a, b) == <<100 * (a[1] * b[2] - b[1] * a[2]), a[2] * b[1]>>

\* (a / b) * 100 for b > 0
PercentOf(a, b) == <<100 * a[1] * b[2], a[2] * b[1]>>

\* f"{r:.2f}" and f"{r:.1f}": r * scale rounded to the nearest integer, a tie
\* to the even one
RoundScaled(r, scale) ==
    LET num == r[1] * scale
        fl == num \div r[2]
        rem == num - fl * r[2]
    IN  IF 2 * rem < r[2] THEN fl
        ELSE IF 2 * rem > r[2] THEN fl + 1
        ELSE IF fl % 2 = 0 THEN fl ELSE fl + 1

Fmt2(r) == RoundScaled(r, 100)

Fmt1(r) == RoundScaled(r, 10)

Abs(n) == IF n < 0 THEN -n ELSE n

RECURSIVE SumSeq(_)
SumSeq(s) == IF s = <<>> THEN 0 ELSE Head(s) + SumSeq(Tail(s))

RECURSIVE SumSquares(_)
SumSquares(s) == IF s = <<>> THEN 0 ELSE Head(s) * Head(s) + SumSquares(Tail(s))

MaxSeq(s) == CHOOSE m \in {s[i] : i \in 1..Len(s)} : \A i \in 1..Len(s) : s[i] <= m

MinSeq(s) == CHOOSE m \in {s[i] : i \in 1..Len(s)} : \A i \in 1..Len(s) : m <= s[i]

\* The least t >= lo with (2t + 1)^2 * den > num4, found by doubling and
\* bisection: round(sqrt(num4 / (4 * den))) for a square root that is no tie.
RECURSIVE UpperRoot(_, _, _)
UpperRoot(num4, den, h) ==
    IF (2 * h + 1) * (2 * h + 1) > num4 \div den THEN h
    ELSE UpperRoot(num4, den, 2 * h + 1)

RECURSIVE LeastRoot(_, _, _, _)
LeastRoot(num4, den, lo, hi) ==
    IF lo >= hi THEN lo
    ELSE LET mid == (lo + hi) \div 2
         IN  IF (2 * mid + 1) * (2 * mid + 1) > num4 \div den
             THEN LeastRoot(num4, den, lo, mid)
             ELSE LeastRoot(num4, den, mid + 1, hi)

\* floor(a * 4000000 / b) in two steps of 2000, within 32 bits
Times4MillionOver(a, b) ==
    LET q1 == (a * 2000) \div b
        r1 == a * 2000 - q1 * b
    IN  q1 * 2000 + (r1 * 2000) \div b

\* round(1000 * sqrt(a / b)) for a >= 0, b > 0
RoundedRoot1000(a, b) ==
    LET x == Times4MillionOver(a, b)
    IN  LeastRoot(x, 1, 0, UpperRoot(x, 1, 0))

(***************************************************************************)
(* Insight strings.  A formatted sentence is its template, the field name  *)
(* as printed (underscores as spaces), the category name as printed and    *)
(* the numbers as formatted: two sentences are the same string exactly     *)
(* when these agree.                                                       *)
(***************************************************************************)

Insight(t, f, c, a) == [t |-> t, f |-> f, c |-> c, a |-> a]

\* field.replace('_', ' ')
printed(field) == Replace(field, "_", " ")

InsufficientData == Insight("Insufficient data for analysis.", <<>>, <<>>, <<>>)

ErrorAnalyzing ==
    Insight("Error analyzing data. Please check the input format.", <<>>, <<>>, <<>>)

generate_recommendations ==
    << Insight("Consider conducting a detailed analysis of your best performing segments to identify success factors that can be applied elsewhere.",
               <<>>, <<>>, <<>>),
       Insight("Regular financial monitoring and reporting can help identify trends earlier and improve decision-making.",
               <<>>, <<>>, <<>>),
       Insight("Diversify revenue streams to reduce dependency on any single source and increase business resilience.",
               <<>>, <<>>, <<>>),
       Insight("Implement forecasting models to better predict future performance and prepare accordingly.",
               <<>>, <<>>, <<>>),
       Insight("Review cost structures periodically to identify opportunities for optimization and improved margins.",
               <<>>, <<>>, <<>>) >>

(***************************************************************************)
(* Doubles.  Where a quotient meets a threshold exactly, what the code     *)
(* decides depends on the roundings of its float arithmetic, so there the  *)
(* expression is computed as the interpreter computes it: a double is      *)
(* s * m * 2^e with s the sign, m a natural number of at most 53 bits and  *)
(* e an integer; every operation computes the exact result and rounds it   *)
(* to 53 bits, a half to the even neighbour.  A natural number is a tuple  *)
(* of limbs in base 2^15, the lowest first and the highest not zero.       *)
(* Away from a threshold the exact quotient decides: the numbers of a      *)
(* record are small integers, a quotient of them that is not the           *)
(* threshold is far further from it than the roundings reach.              *)
(***************************************************************************)

RECURSIVE TwoTo(_)
TwoTo(k) == IF k = 0 THEN 1 ELSE 2 * TwoTo(k - 1)

\* The bits of a limb: the product of two limbs fits a 32-bit integer
LimbBits == 15

Limb == TwoTo(LimbBits)

Rest(a) == IF a = <<>> THEN <<>> ELSE Tail(a)

LimbOf(a) == IF a = <<>> THEN 0 ELSE Head(a)

RECURSIVE BigTrim(_)
BigTrim(a) ==
    IF a = <<>> THEN <<>>
    ELSE IF a[Len(a)] = 0 THEN BigTrim(SubSeq(a, 1, Len(a) - 1))
    ELSE a

RECURSIVE BigOfNat(_)
BigOfNat(n) == IF n = 0 THEN <<>> ELSE <<n % Limb>> \o BigOfNat(n \div Limb)

RECURSIVE BigAddCarry(_, _, _)
BigAddCarry(a, b, carry) ==
    IF a = <<>> /\ b = <<>> THEN (IF carry = 0 THEN <<>> ELSE <<carry>>)
    ELSE LET sum == LimbOf(a) + LimbOf(b) + carry
         IN  <<sum % Limb>> \o BigAddCarry(Rest(a), Rest(b), sum \div Limb)

BigAdd(a, b) == BigAddCarry(a, b, 0)

\* a - b for a >= b
RECURSIVE BigSubBorrow(_, _, _)
BigSubBorrow(a, b, borrow) ==
    IF a = <<>> THEN <<>>
    ELSE LET difference == Head(a) - LimbOf(b) - borrow
         IN  IF difference < 0
             THEN <<difference + Limb>> \o BigSubBorrow(Tail(a), Rest(b), 1)
             ELSE <<difference>> \o BigSubBorrow(Tail(a), Rest(b), 0)

BigSub(a, b) == BigTrim(BigSubBorrow(a, b, 0))

\* -1, 0 or 1 as a is below, equal to or above b
BigCmp(a, b) ==
    IF Len(a) # Len(b) THEN (IF Len(a) > Len(b) THEN 1 ELSE -1)
    ELSE IF a = b THEN 0
    ELSE LET i == CHOOSE i \in 1..Len(a) :
                      /\ a[i] # b[i]
                      /\ \A j \in (i + 1)..Len(a) : a[j] = b[j]
         IN  IF a[i] > b[i] THEN 1 ELSE -1

RECURSIVE BigMulLimb(_, _, _)
BigMulLimb(a, k, carry) ==
    IF a = <<>> THEN (IF carry = 0 THEN <<>> ELSE <<carry>>)
    ELSE LET product == Head(a) * k + carry
         IN  <<product % Limb>> \o BigMulLimb(Tail(a), k, product \div Limb)

RECURSIVE BigMulAll(_, _)
BigMulAll(a, b) ==
    IF b = <<>> THEN <<>>
    ELSE BigAdd(BigMulLimb(a, Head(b), 0), <<0>> \o BigMulAll(a, Tail(b)))

BigMul(a, b) == BigTrim(BigMulAll(a, b))

\* a * 2^k
BigShl(a, k) ==
    IF a = <<>> THEN <<>>
    ELSE [i \in 1..(k \div LimbBits) |-> 0]
             \o BigMulLimb(a, TwoTo(k % LimbBits), 0)

\* a \div 2^k
BigShr(a, k) ==
    LET whole == k \div LimbBits
        part == TwoTo(k % LimbBits)
        high == IF whole >= Len(a) THEN <<>> ELSE SubSeq(a, whole + 1, Len(a))
        Above(i) == IF i < Len(high) THEN high[i + 1] ELSE 0
    IN  BigTrim([i \in 1..Len(high) |->
                    (high[i] \div part) + (Above(i) % part) * (Limb \div part)])

\* the number of bits of a
BigBits(a) ==
    IF a = <<>> THEN 0
    ELSE LimbBits * (Len(a) - 1)
             + (CHOOSE n \in 1..LimbBits :
                    TwoTo(n - 1) <= a[Len(a)] /\ a[Len(a)] < TwoTo(n))

Double(s, m, e) == [s |-> s, m |-> m, e |-> e]

DoubleZero == Double(1, <<>>, 0)

\* the double nearest s * m * 2^e, plus a little more when sticky
RoundToDouble(s, m, e, sticky) ==
    LET drop == BigBits(m) - 53
    IN  IF m = <<>> THEN DoubleZero
        ELSE IF drop <= 0 THEN Double(s, m, e)
        ELSE LET kept == BigShr(m, drop)
                 rest == BigSub(m, BigShl(kept, drop))
                 half == BigCmp(rest, BigShl(<<1>>, drop - 1))
                 up == \/ half > 0
                       \/ half = 0 /\ (sticky \/ kept[1] % 2 = 1)
             IN  Double(s, IF up THEN BigAdd(kept, <<1>>) ELSE kept, e + drop)

DoubleOfInt(n) ==
    IF n < 0 THEN Double(-1, BigOfNat(-n), 0) ELSE Double(1, BigOfNat(n), 0)

DoubleNeg(x) == IF x.m = <<>> THEN x ELSE Double(-x.s, x.m, x.e)

DoubleAdd(x, y) ==
    LET e == IF x.e < y.e THEN x.e ELSE y.e
        a == BigShl(x.m, x.e - e)
        b == BigShl(y.m, y.e - e)
        order == BigCmp(a, b)
    IN  IF x.m = <<>> THEN y
        ELSE IF y.m = <<>> THEN x
        ELSE IF x.s = y.s THEN RoundToDouble(x.s, BigAdd(a, b), e, FALSE)
        ELSE IF order = 0 THEN DoubleZero
        ELSE IF order > 0 THEN RoundToDouble(x.s, BigSub(a, b), e, FALSE)
        ELSE RoundToDouble(y.s, BigSub(b, a), e, FALSE)

DoubleSub(x, y) == DoubleAdd(x, DoubleNeg(y))

DoubleMul(x, y) ==
    RoundToDouble(x.s * y.s, BigMul(x.m, y.m), x.e + y.e, FALSE)

\* one bit of a long division by d: the remainder doubles, d comes off it
DivideStep(at, d) ==
    LET twice == BigAdd(at.r, at.r)
    IN  IF BigCmp(twice, d) >= 0
        THEN [q |-> BigAddCarry(at.q, at.q, 1), r |-> BigSub(twice, d)]
        ELSE [q |-> BigAdd(at.q, at.q), r |-> twice]

\* k bits of it; the first half of the bits is a value before the second
\* half starts from it
RECURSIVE DivideSteps(_, _, _)
DivideSteps(at, d, k) ==
    IF k = 0 THEN at
    ELSE IF k = 1 THEN DivideStep(at, d)
    ELSE CHOOSE done \in {DivideSteps(half, d, k - k \div 2) :
                              half \in {DivideSteps(at, d, k \div 2)}} : TRUE

\* x / y for y not zero: 56 bits of the quotient or more, then the rounding
DoubleDiv(x, y) ==
    LET over == BigBits(x.m) - BigBits(y.m)
        up == IF over + 1 > 0 THEN over + 1 ELSE 0
        shift == IF 56 - over > 0 THEN 56 - over ELSE 0
        division == DivideSteps([q |-> <<>>, r |-> x.m], BigShl(y.m, up),
                                shift + up)
    IN  IF x.m = <<>> THEN DoubleZero
        ELSE RoundToDouble(x.s * y.s, division.q, x.e - y.e - shift,
                           division.r # <<>>)

\* x > y
DoubleGreater(x, y) ==
    LET difference == DoubleSub(x, y)
    IN  difference.m # <<>> /\ difference.s = 1

\* sum(values) / len(values) with the sum a[1] and the count a[2]
DoubleOfAverage(a) == DoubleDiv(DoubleOfInt(a[1]), DoubleOfInt(a[2]))

\* ((a - b) / b) * 100 of two averages
DoublePercentOver(a, b) ==
    LET top == DoubleOfAverage(a)
        bottom == DoubleOfAverage(b)
    IN  DoubleMul(DoubleDiv(DoubleSub(top, bottom), bottom), DoubleOfInt(100))

(***************************************************************************)
(* Reading a field of an item                                              *)
(***************************************************************************)

\* a string float() accepts: digits with at most one point, after an
\* optional sign
float_accepts(s) ==
    LET body == IF s # <<>> /\ Head(s) \in {"-", "+"} THEN Tail(s) ELSE s
    IN  IsDigit(RemoveFirst(body, "."))

\* float(value) does not raise
float_ok(v) == v.k \in {"int", "float", "nan"} \/ (v.k = "str" /\ float_accepts(v.s))

\* float(value)
to_float(v) ==
    IF v.k # "str" THEN v.n
    ELSE IF Head(v.s) = "-" THEN -StrToFloat(Tail(v.s))
    ELSE IF Head(v.s) = "+" THEN StrToFloat(Tail(v.s))
    ELSE StrToFloat(v.s)

\* bool(value)
truthy(v) ==
    CASE v.k = "null" -> FALSE
      [] v.k = "str" -> v.s # <<>>
      [] v.k \in {"int", "float"} -> v.n # 0
      [] OTHER -> TRUE

\* field in item and item[field] is not None
present(item, field) ==
    item.t = "dict" /\ HasKey(item.d, field) /\ Get(item.d, field).k # "null"

RECURSIVE IntToStr(_)
IntToStr(n) ==
    IF n < 0 THEN <<"-">> \o IntToStr(-n)
    ELSE IF n < 10 THEN <<Digits[n + 1]>>
    ELSE IntToStr(n \div 10) \o <<Digits[(n % 10) + 1]>>

\* str(value)
py_str(v) ==
    CASE v.k = "str" -> v.s
      [] v.k = "int" -> IntToStr(v.n)
      [] v.k = "float" -> IntToStr(v.n) \o <<".", "0">>
      [] v.k = "nan" -> <<"n", "a", "n">>
      [] OTHER -> <<"N", "o", "n", "e">>

\* The characters of the model in code-point order
CharOrder ==
    <<"\t", " ", "+", "-", ".", "0", "1", "2", "3", "4", "5", "6", "7", "8", "9",
      "A", "B", "C", "D", "N", "Q", "S", "_",
      "a", "b", "c", "d", "e", "f", "g", "h", "i", "j", "k", "l", "m",
      "n", "o", "p", "q", "r", "s", "t", "u", "v", "w", "x", "y", "z">>

CharCode(c) == CHOOSE i \in 1..Len(CharOrder) : CharOrder[i] = c

\* s < t for strings
RECURSIVE StrLess(_, _)
StrLess(s, t) ==
    IF t = <<>> THEN FALSE
    ELSE IF s = <<>> THEN TRUE
    ELSE IF Head(s) = Head(t) THEN StrLess(Tail(s), Tail(t))
    ELSE CharCode(Head(s)) < CharCode(Head(t))

IsNumber(v) == v.k \in {"int", "float"}

\* a < b raises TypeError between a string and a number
comparable(a, b) == (IsNumber(a) /\ IsNumber(b)) \/ (a.k = "str" /\ b.k = "str")

\* a < b for two comparable values
value_less(a, b) == IF a.k = "str" THEN StrLess(a.s, b.s) ELSE a.n < b.n

\* a == b as Python compares: 2 == 2.0
value_equal(a, b) == IF IsNumber(a) /\ IsNumber(b) THEN a.n = b.n ELSE a = b

(***************************************************************************)
(* generate_statistical_insights                                           *)
(***************************************************************************)

\* The items whose value the list comprehension converts, in order
items_with(items, field) == SelectSeq(items, LAMBDA it : present(it, field))

\* values = [float(item[field]) for item in data if field in item and ...]:
\* the comprehension raises on an item that is None and on a value float()
\* rejects
values_raise(items, field) ==
    \E i \in 1..Len(items) :
        \/ membership_raises(items[i])
        \/ present(items[i], field) /\ ~float_ok(Get(items[i].d, field))

values_of(items, field) ==
    LET sel == items_with(items, field)
    IN  [i \in 1..Len(sel) |-> to_float(Get(sel[i].d, field))]

\* The terms with cost among them
spread_terms_with_cost == <<s_revenue, s_profit, s_sales, s_income, s_cost>>

spread_terms == <<s_revenue, s_profit, s_sales, s_income>>

\* std_dev / average * 100 against the two thresholds, and as printed, with
\* n * sum(x^2) - sum(x)^2 over (n - 1) * sum(x)^2 the squared quotient
variability_insights(field, values) ==
    LET n == Len(values)
        total == SumSeq(values)
        a == n * (n * SumSquares(values) - total * total)
        b == (n - 1) * total * total
    IN  IF total > 0
        THEN IF 100 * a > 9 * b
             THEN <<Insight("shows high variability", printed(field), <<>>,
                            <<RoundedRoot1000(a, b)>>)>>
             ELSE IF 100 * a < b
             THEN <<Insight("shows low variability", printed(field), <<>>,
                            <<RoundedRoot1000(a, b)>>)>>
             ELSE <<>>
        ELSE <<Insight("shows low variability", printed(field), <<>>, <<0>>)>>

\* The body of the try of one field
field_statistics(field, values) ==
    LET n == Len(values)
        total == SumSeq(values)
        max_val == MaxSeq(values)
        min_val == MinSeq(values)
    IN  IF n < 3 THEN <<>>
        ELSE << Insight("Total", printed(field), <<>>, <<100 * total>>),
                Insight("Average", printed(field), <<>>, <<Fmt2(Rat(total, n))>>),
                Insight("Maximum", printed(field), <<>>, <<100 * max_val>>),
                Insight("Minimum", printed(field), <<>>, <<100 * min_val>>) >>
             \o (IF ContainsAny(Lower(field), spread_terms)
                 THEN <<Insight("difference between the highest and lowest",
                                printed(field), <<>>,
                                <<IF min_val > 0
                                  THEN Fmt1(PercentOver(Rat(max_val, 1), Rat(min_val, 1)))
                                  ELSE 0>>)>>
                 ELSE <<>>)
             \o (IF n >= 5 THEN variability_insights(field, values) ELSE <<>>)

\* The values are converted before the try is entered: a conversion that
\* raises leaves the function
RECURSIVE generate_statistical_insights(_, _)
generate_statistical_insights(items, numeric_fields) ==
    IF numeric_fields = <<>> THEN Ok(<<>>)
    ELSE LET field == Head(numeric_fields)
         IN  IF values_raise(items, field) THEN Raised
             ELSE LET rest == generate_statistical_insights(items, Tail(numeric_fields))
                  IN  IF rest.exc THEN Raised
                      ELSE Ok(field_statistics(field, values_of(items, field)) \o rest.val)

(***************************************************************************)
(* generate_trend_insights                                                 *)
(***************************************************************************)

\* The condition of the comprehension that builds data_points
is_data_point(item, date_field, numeric_field) ==
    /\ item.t = "dict"
    /\ HasKey(item.d, date_field)
    /\ HasKey(item.d, numeric_field)
    /\ truthy(Get(item.d, date_field))
    /\ Get(item.d, numeric_field).k # "null"

\* The comprehension raises inside the try
data_points_raise(items, date_field, numeric_field) ==
    \E i \in 1..Len(items) :
        \/ membership_raises(items[i])
        \/ /\ is_data_point(items[i], date_field, numeric_field)
           /\ ~float_ok(Get(items[i].d, numeric_field))

data_points_of(items, date_field, numeric_field) ==
    LET sel == SelectSeq(items, LAMBDA it : is_data_point(it, date_field, numeric_field))
    IN  [i \in 1..Len(sel) |->
            [d |-> Get(sel[i].d, date_field), v |-> to_float(Get(sel[i].d, numeric_field))]]

\* list.sort raises TypeError when it has to order a string and a number
sort_raises(points) ==
    \E i, j \in 1..Len(points) : ~comparable(points[i].d, points[j].d)

\* p goes behind every point whose date is not later: the sort is stable
RECURSIVE insert_point(_, _)
insert_point(p, sorted) ==
    IF sorted = <<>> THEN <<p>>
    ELSE IF value_less(p.d, Head(sorted).d) THEN <<p>> \o sorted
    ELSE <<Head(sorted)>> \o insert_point(p, Tail(sorted))

\* data_points.sort(key=lambda x: x[0])
RECURSIVE sort_points(_)
sort_points(points) ==
    IF points = <<>> THEN <<>>
    ELSE insert_point(points[Len(points)], sort_points(SubSeq(points, 1, Len(points) - 1)))

\* sum(segment_values) / len(segment_values) of data_points[from:to], 0-based
segment_average(points, from, to) ==
    Rat(SumSeq([i \in 1..(to - from) |-> points[from + i].v]), to - from)

\* ((last - first) / first) * 100 if first > 0 else 0
percent_change_of(first, last) ==
    IF RPositive(first) THEN PercentOver(last, first) ELSE RZero

\* overall_trend with thresholds that include 10 and -10
overall_trend_inclusive(field, points) ==
    LET change == percent_change_of(Rat(points[1].v, 1), Rat(points[Len(points)].v, 1))
    IN  IF ~RLess(change, Rat(10, 1))
        THEN Insight("shows an increasing trend", printed(field), <<>>, <<Fmt1(change)>>)
        ELSE IF ~RLess(Rat(-10, 1), change)
        THEN Insight("shows a decreasing trend", printed(field), <<>>, <<Abs(Fmt1(change))>>)
        ELSE Insight("remains relatively stable", printed(field), <<>>, <<Fmt1(change)>>)

overall_trend(field, points) ==
    LET change == percent_change_of(Rat(points[1].v, 1), Rat(points[Len(points)].v, 1))
    IN  IF RLess(Rat(10, 1), change)
        THEN Insight("shows an increasing trend", printed(field), <<>>, <<Fmt1(change)>>)
        ELSE IF RLess(change, Rat(-10, 1))
        THEN Insight("shows a decreasing trend", printed(field), <<>>, <<Abs(Fmt1(change))>>)
        ELSE Insight("remains relatively stable", printed(field), <<>>, <<Fmt1(change)>>)

MinOf(a, b) == IF a < b THEN a ELSE b

\* Segments of segment_size points each, whatever is left behind the last
segment_bounds_equal(n) ==
    LET segments == MinOf(4, n \div 2)
        segment_size == n \div segments
    IN  [i \in 1..segments |->
            [start_idx |-> (i - 1) * segment_size,
             end_idx |-> (i - 1) * segment_size + segment_size]]

\* The segments of n date-sorted points as the loop cuts them, 0-based and
\* half-open: segment_size points each, the last one running to the end
segment_bounds(n) ==
    LET segments == MinOf(4, n \div 2)
        segment_size == n \div segments
    IN  [i \in 1..segments |->
            [start_idx |-> (i - 1) * segment_size,
             end_idx |-> IF i < segments THEN (i - 1) * segment_size + segment_size
                         ELSE n]]

recent_trend(field, points) ==
    LET bounds == segment_bounds(Len(points))
        segment_averages == [i \in 1..Len(bounds) |->
                            segment_average(points, bounds[i].start_idx, bounds[i].end_idx)]
        first == segment_averages[1]
        last == segment_averages[Len(segment_averages)]
        change == percent_change_of(first, last)
    IN  IF RLess(Rat(15, 1), change)
        THEN <<Insight("shows a strong positive trend", printed(field), <<>>, <<Fmt1(change)>>)>>
        ELSE IF RLess(change, Rat(-15, 1))
        THEN <<Insight("shows a concerning downward trend", printed(field), <<>>,
                       <<Abs(Fmt1(change))>>)>>
        ELSE <<>>

\* The body of the try of one numeric field; an exception leaves it with
\* nothing appended
field_trend(items, date_field, numeric_field) ==
    IF data_points_raise(items, date_field, numeric_field) THEN <<>>
    ELSE LET unsorted == data_points_of(items, date_field, numeric_field)
         IN  IF Len(unsorted) < 3 THEN <<>>
             ELSE IF sort_raises(unsorted) THEN <<>>
             ELSE LET points == sort_points(unsorted)
                  IN  <<overall_trend(numeric_field, points)>>
                      \o (IF Len(points) >= 6 THEN recent_trend(numeric_field, points) ELSE <<>>)

RECURSIVE trend_of_fields(_, _, _)
trend_of_fields(items, date_field, numeric_fields) ==
    IF numeric_fields = <<>> THEN <<>>
    ELSE field_trend(items, date_field, Head(numeric_fields))
         \o trend_of_fields(items, date_field, Tail(numeric_fields))

generate_trend_insights(items, date_fields, numeric_fields) ==
    IF date_fields = <<>> \/ numeric_fields = <<>> THEN <<>>
    ELSE trend_of_fields(items, date_fields[1], numeric_fields)

(***************************************************************************)
(* generate_category_insights                                              *)
(***************************************************************************)

\* The condition under which an item joins a category
is_category_point(item, category_field, numeric_field) ==
    /\ item.t = "dict"
    /\ HasKey(item.d, category_field)
    /\ HasKey(item.d, numeric_field)
    /\ Get(item.d, category_field).k # "null"
    /\ Get(item.d, numeric_field).k # "null"

\* The grouping loop raises inside the try
grouping_raises(items, category_field, numeric_field) ==
    \E i \in 1..Len(items) :
        \/ membership_raises(items[i])
        \/ /\ is_category_point(items[i], category_field, numeric_field)
           /\ ~float_ok(Get(items[i].d, numeric_field))

\* category_data[category].append(value), a new category behind the others
add_to_category(groups, category, value) ==
    IF \E i \in 1..Len(groups) : groups[i].c = category
    THEN [i \in 1..Len(groups) |->
            IF groups[i].c = category
            THEN [groups[i] EXCEPT !.vals = Append(@, value)]
            ELSE groups[i]]
    ELSE Append(groups, [c |-> category, vals |-> <<value>>])

RECURSIVE category_data_of(_, _, _)
category_data_of(items, category_field, numeric_field) ==
    IF items = <<>> THEN <<>>
    ELSE LET before == category_data_of(SubSeq(items, 1, Len(items) - 1),
                                        category_field, numeric_field)
             item == items[Len(items)]
         IN  IF is_category_point(item, category_field, numeric_field)
             THEN add_to_category(before, py_str(Get(item.d, category_field)),
                                  to_float(Get(item.d, numeric_field)))
             ELSE before

category_averages_of(groups) ==
    [i \in 1..Len(groups) |->
        <<groups[i].c, Rat(SumSeq(groups[i].vals), Len(groups[i].vals))>>]

\* sorted(entries, key=lambda x: x[1], reverse=True): e goes behind every
\* entry whose number is not smaller, so equal numbers keep their order
RECURSIVE insert_descending(_, _)
insert_descending(e, sorted) ==
    IF sorted = <<>> THEN <<e>>
    ELSE IF RLess(Head(sorted)[2], e[2]) THEN <<e>> \o sorted
    ELSE <<Head(sorted)>> \o insert_descending(e, Tail(sorted))

RECURSIVE sort_descending(_)
sort_descending(entries) ==
    IF entries = <<>> THEN <<>>
    ELSE insert_descending(entries[Len(entries)],
                           sort_descending(SubSeq(entries, 1, Len(entries) - 1)))

RECURSIVE SumAverages(_)
SumAverages(entries) ==
    IF entries = <<>> THEN RZero ELSE RAdd(Head(entries)[2], SumAverages(Tail(entries)))

\* (part / total) * 100 if total > 0 else 0
contribution_of(part, total) == IF RPositive(total) THEN PercentOf(part, total) ELSE RZero

\* ((top - bottom) / bottom) * 100 > 50 for bottom > 0: away from 50 as in
\* exact numbers, at exactly 50 as the doubles of the code have it
gap_exceeds_50(top, bottom) ==
    LET gap == PercentOver(top, bottom)
    IN  \/ RLess(Rat(50, 1), gap)
        \/ /\ ~RLess(gap, Rat(50, 1))
           /\ DoubleGreater(DoublePercentOver(top, bottom), DoubleOfInt(50))

top_and_bottom(field, sorted) ==
    LET top == sorted[1]
        bottom == sorted[Len(sorted)]
        gap == IF RPositive(bottom[2]) THEN PercentOver(top[2], bottom[2]) ELSE RZero
    IN  << Insight("best performing category", printed(field), top[1], <<Fmt2(top[2])>>),
           Insight("lowest performing category", printed(field), bottom[1], <<Fmt2(bottom[2])>>) >>
        \o (IF RPositive(bottom[2]) /\ gap_exceeds_50(top[2], bottom[2])
            THEN <<Insight("significant performance gap", printed(field), <<>>, <<Fmt1(gap)>>)>>
            ELSE <<>>)

\* dominant_category with a threshold that includes 40
dominant_category_inclusive(field, sorted, total) ==
    LET over == {i \in 1..Len(sorted) : ~RLess(contribution_of(sorted[i][2], total), Rat(40, 1))}
    IN  IF over = {} THEN <<>>
        ELSE LET i == CHOOSE k \in over : \A m \in over : k <= m
             IN  <<Insight("category dominates", printed(field), sorted[i][1],
                           <<Fmt1(contribution_of(sorted[i][2], total))>>)>>

\* The first category, in sorted order, that contributes more than 40%
dominant_category(field, sorted, total) ==
    LET over == {i \in 1..Len(sorted) : RLess(Rat(40, 1), contribution_of(sorted[i][2], total))}
    IN  IF over = {} THEN <<>>
        ELSE LET i == CHOOSE k \in over : \A m \in over : k <= m
             IN  <<Insight("category dominates", printed(field), sorted[i][1],
                           <<Fmt1(contribution_of(sorted[i][2], total))>>)>>

concentration(field, sorted, total) ==
    LET top_two == contribution_of(RAdd(sorted[1][2], sorted[2][2]), total)
    IN  IF RLess(Rat(70, 1), top_two)
        THEN <<Insight("Top two categories represent", printed(field), <<>>, <<Fmt1(top_two)>>)>>
        ELSE <<>>

\* The body of the try of one numeric field
field_categories(items, category_field, numeric_field) ==
    IF grouping_raises(items, category_field, numeric_field) THEN <<>>
    ELSE LET groups == category_data_of(items, category_field, numeric_field)
         IN  IF Len(groups) < 2 THEN <<>>
             ELSE LET sorted == sort_descending(category_averages_of(groups))
                      total == SumAverages(sorted)
                  IN  top_and_bottom(numeric_field, sorted)
                      \o (IF Len(sorted) >= 3
                          THEN dominant_category(numeric_field, sorted, total)
                               \o (IF Len(sorted) >= 4
                                   THEN concentration(numeric_field, sorted, total)
                                   ELSE <<>>)
                          ELSE <<>>)

RECURSIVE categories_of_fields(_, _, _)
categories_of_fields(items, category_field, numeric_fields) ==
    IF numeric_fields = <<>> THEN <<>>
    ELSE field_categories(items, category_field, Head(numeric_fields))
         \o categories_of_fields(items, category_field, Tail(numeric_fields))

generate_category_insights(items, category_fields, numeric_fields) ==
    IF category_fields = <<>> \/ numeric_fields = <<>> THEN <<>>
    ELSE categories_of_fields(items, category_fields[1], numeric_fields)

(***************************************************************************)
(* generate_complex_insights                                               *)
(***************************************************************************)

\* all three fields are in the item and none of them is None
is_organized_point(item, date_field, category_field, numeric_field) ==
    /\ item.t = "dict"
    /\ \A f \in {date_field, category_field, numeric_field} :
          HasKey(item.d, f) /\ Get(item.d, f).k # "null"

\* The organizing loop raises inside the try
organizing_raises(items, date_field, category_field, numeric_field) ==
    \E i \in 1..Len(items) :
        \/ membership_raises(items[i])
        \/ /\ is_organized_point(items[i], date_field, category_field, numeric_field)
           /\ ~float_ok(Get(items[i].d, numeric_field))

\* organized_data[category][date].append(value): a new date behind the dates
\* of the category
add_to_date(dates, date, value) ==
    IF \E i \in 1..Len(dates) : value_equal(dates[i].d, date)
    THEN [i \in 1..Len(dates) |->
            IF value_equal(dates[i].d, date)
            THEN [dates[i] EXCEPT !.vals = Append(@, value)]
            ELSE dates[i]]
    ELSE Append(dates, [d |-> date, vals |-> <<value>>])

add_to_organized(organized, category, date, value) ==
    IF \E i \in 1..Len(organized) : organized[i].c = category
    THEN [i \in 1..Len(organized) |->
            IF organized[i].c = category
            THEN [organized[i] EXCEPT !.dates = add_to_date(@, date, value)]
            ELSE organized[i]]
    ELSE Append(organized, [c |-> category, dates |-> add_to_date(<<>>, date, value)])

RECURSIVE organized_data_of(_, _, _, _)
organized_data_of(items, date_field, category_field, numeric_field) ==
    IF items = <<>> THEN <<>>
    ELSE LET before == organized_data_of(SubSeq(items, 1, Len(items) - 1),
                                         date_field, category_field, numeric_field)
             item == items[Len(items)]
         IN  IF is_organized_point(item, date_field, category_field, numeric_field)
             THEN add_to_organized(before, py_str(Get(item.d, category_field)),
                                   Get(item.d, date_field),
                                   to_float(Get(item.d, numeric_field)))
             ELSE before

\* The categories whose growth rate is computed
with_two_dates(organized) == SelectSeq(organized, LAMBDA g : Len(g.dates) >= 2)

\* sorted(date_data.keys()) raises TypeError on a string next to a number
sorted_dates_raise(organized) ==
    \E g \in 1..Len(with_two_dates(organized)) :
        LET dates == with_two_dates(organized)[g].dates
        IN  \E i, j \in 1..Len(dates) : ~comparable(dates[i].d, dates[j].d)

\* sorted_dates[0] and sorted_dates[-1] of distinct dates
earliest_of(dates) ==
    CHOOSE e \in {dates[i] : i \in 1..Len(dates)} :
        \A i \in 1..Len(dates) : ~value_less(dates[i].d, e.d)

latest_of(dates) ==
    CHOOSE e \in {dates[i] : i \in 1..Len(dates)} :
        \A i \in 1..Len(dates) : ~value_less(e.d, dates[i].d)

\* sum(date_data[date]) / len(date_data[date])
earliest_avg_of(dates) ==
    LET earliest == earliest_of(dates).vals
    IN  Rat(SumSeq(earliest), Len(earliest))

latest_avg_of(dates) ==
    LET latest == latest_of(dates).vals
    IN  Rat(SumSeq(latest), Len(latest))

growth_rate_of(dates) == percent_change_of(earliest_avg_of(dates), latest_avg_of(dates))

\* growth_rates.items(): the category, its growth rate, and the two averages
\* the rate was computed from
growth_rates_of(organized) ==
    LET grown == with_two_dates(organized)
    IN  [i \in 1..Len(grown) |->
            <<grown[i].c, growth_rate_of(grown[i].dates),
              earliest_avg_of(grown[i].dates), latest_avg_of(grown[i].dates)>>]

\* growth_rate as the double the code computes
growth_rate_double(growing) ==
    IF RPositive(growing[3]) THEN DoublePercentOver(growing[4], growing[3])
    ELSE DoubleOfInt(0)

\* fastest_growing[1] - slowest_growing[1] > 50: away from 50 as in exact
\* numbers, at exactly 50 as the doubles of the code have it
growth_diff_exceeds_50(fastest_growing, slowest_growing) ==
    LET growth_diff == RSub(fastest_growing[2], slowest_growing[2])
    IN  \/ RLess(Rat(50, 1), growth_diff)
        \/ /\ ~RLess(growth_diff, Rat(50, 1))
           /\ DoubleGreater(DoubleSub(growth_rate_double(fastest_growing),
                                      growth_rate_double(slowest_growing)),
                            DoubleOfInt(50))

growth_comparison(field, sorted_growth) ==
    LET fastest_growing == sorted_growth[1]
        slowest_growing == sorted_growth[Len(sorted_growth)]
        growth_diff == RSub(fastest_growing[2], slowest_growing[2])
    IN  << Insight("fastest growing category", printed(field), fastest_growing[1],
                   <<Fmt1(fastest_growing[2])>>),
           IF RLess(slowest_growing[2], RZero)
           THEN Insight("is showing a decline", printed(field), slowest_growing[1],
                        <<Abs(Fmt1(slowest_growing[2]))>>)
           ELSE Insight("slowest growing category", printed(field), slowest_growing[1],
                        <<Fmt1(slowest_growing[2])>>) >>
        \o (IF growth_diff_exceeds_50(fastest_growing, slowest_growing)
            THEN <<Insight("significant growth gap", printed(field), <<>>,
                           <<Fmt1(growth_diff)>>)>>
            ELSE <<>>)

\* The body of the try of one numeric field
field_growth(items, date_field, category_field, numeric_field) ==
    IF organizing_raises(items, date_field, category_field, numeric_field) THEN <<>>
    ELSE LET organized == organized_data_of(items, date_field, category_field, numeric_field)
         IN  IF Len(organized) < 2 THEN <<>>
             ELSE IF sorted_dates_raise(organized) THEN <<>>
             ELSE LET growth_rates == growth_rates_of(organized)
                  IN  IF Len(growth_rates) < 2 THEN <<>>
                      ELSE growth_comparison(numeric_field, sort_descending(growth_rates))

RECURSIVE growth_of_fields(_, _, _, _)
growth_of_fields(items, date_field, category_field, numeric_fields) ==
    IF numeric_fields = <<>> THEN <<>>
    ELSE field_growth(items, date_field, category_field, Head(numeric_fields))
         \o growth_of_fields(items, date_field, category_field, Tail(numeric_fields))

generate_complex_insights(items, date_fields, category_fields, numeric_fields) ==
    IF date_fields = <<>> \/ category_fields = <<>> \/ numeric_fields = <<>> THEN <<>>
    ELSE growth_of_fields(items, date_fields[1], category_fields[1], numeric_fields)

(***************************************************************************)
(* analyze_data                                                            *)
(***************************************************************************)

\* The strings of a list, each once, in the order of first appearance
RECURSIVE distinct_of(_)
distinct_of(s) ==
    IF s = <<>> THEN <<>>
    ELSE LET before == distinct_of(SubSeq(s, 1, Len(s) - 1))
             x == s[Len(s)]
         IN  IF \E i \in 1..Len(before) : before[i] = x THEN before ELSE Append(before, x)

\* s with its first r elements moved behind the others
rotated(s, r) ==
    IF s = <<>> THEN s
    ELSE LET k == r % Len(s)
         IN  SubSeq(s, k + 1, Len(s)) \o SubSeq(s, 1, k)

\* list(insights) in the place of list(set(insights))
unique_of_keeping(insights, hash_seed) == rotated(insights, hash_seed)

\* list(set(insights)): each string once, in an order that the string
\* hashing of the process decides; hash_seed chooses among the orders
unique_of(insights, hash_seed) == rotated(distinct_of(insights), hash_seed)

\* analyze_data with the fallback below two strings
with_fallback_below_two(unique_insights) ==
    IF Len(unique_insights) < 2
    THEN unique_insights \o generate_recommendations
    ELSE unique_insights

\* unique_insights, extended by the recommendations below three
with_fallback(unique_insights) ==
    IF Len(unique_insights) < 3
    THEN unique_insights \o generate_recommendations
    ELSE unique_insights

\* insights after the four extend calls, or the exception that left the try
collected_insights(items) ==
    LET numeric_fields == identify_numeric_fields(items)
        date_fields == identify_date_fields(items)
        category_fields == identify_category_fields(items)
    IN  IF numeric_fields.exc \/ date_fields.exc \/ category_fields.exc THEN Raised
        ELSE LET statistical_insights ==
                     generate_statistical_insights(items, numeric_fields.val)
             IN  IF statistical_insights.exc THEN Raised
                 ELSE Ok(statistical_insights.val
                         \o generate_trend_insights(items, date_fields.val,
                                                    numeric_fields.val)
                         \o generate_category_insights(items, category_fields.val,
                                                       numeric_fields.val)
                         \o generate_complex_insights(items, date_fields.val,
                                                      category_fields.val,
                                                      numeric_fields.val))

\* analyze_data that takes a list with an item that is no record for
\* insufficient data
analyze_data_body_checking_items(d, hash_seed) ==
    IF d.t # "list" \/ d.items = <<>> THEN Ok(<<InsufficientData>>)
    ELSE IF \E i \in 1..Len(d.items) : d.items[i].t # "dict" THEN Ok(<<InsufficientData>>)
    ELSE LET insights == collected_insights(d.items)
         IN  IF insights.exc THEN Raised
             ELSE Ok(with_fallback(unique_of(insights.val, hash_seed)))

\* The body of the try of analyze_data
analyze_data_body(d, hash_seed) ==
    IF d.t # "list" \/ d.items = <<>> THEN Ok(<<InsufficientData>>)
    ELSE LET insights == collected_insights(d.items)
         IN  IF insights.exc THEN Raised
             ELSE Ok(with_fallback(unique_of(insights.val, hash_seed)))

\* analyze_data whose except clause re-raises
analyze_data_reraising(d, hash_seed) == analyze_data_body(d, hash_seed)

analyze_data(d, hash_seed) ==
    LET returned == analyze_data_body(d, hash_seed)
    IN  IF returned.exc THEN Ok(<<ErrorAnalyzing>>) ELSE returned

(***************************************************************************)
(* analyze_data on bounded inputs: what is not a list, the empty list,     *)
(* lists with items that are no records, records of two numeric fields of  *)
(* which one drifts to a string, records with a date, a category and a     *)
(* number, and records of two fields whose names print alike.              *)
(***************************************************************************)

MaxBadItems == 2

MaxDriftRecs == 5

MaxGrowthRecs == 4

MaxTwinRecs == 3

MaxSeed == 1

s_a_b == <<"a", "_", "b">>

s_a_space_b == <<"a", " ", "b">>

s_A == <<"A">>

s_B == <<"B">>

s_D == <<"D">>

s_a == <<"a">>

s_b == <<"b">>

\* Items that are no records, next to one that is
BadItems == {NoneItem, ListItem, Dict(<<Entry(s_amount, PyInt(1))>>)}

\* amount is a number or drifts to a string; cost is a number or missing
DriftRecs ==
    {Dict(<<Entry(s_amount, a), Entry(s_cost, PyInt(2))>>) : a \in {PyInt(1), PyInt(3), PyStr(s_x)}}
    \cup {Dict(<<Entry(s_amount, a)>>) : a \in {PyInt(1), PyInt(3), PyStr(s_x)}}

GrowthRec(date, type, sales) ==
    Dict(<<Entry(s_date, date), Entry(s_type, type), Entry(s_sales, sales)>>)

\* Two dates, three categories, a date of another type, a missing date and
\* a missing category
GrowthRecs ==
    { GrowthRec(PyStr(s_a), PyStr(s_A), PyInt(4)),
      GrowthRec(PyStr(s_b), PyStr(s_A), PyInt(8)),
      GrowthRec(PyStr(s_a), PyStr(s_B), PyInt(5)),
      GrowthRec(PyStr(s_b), PyStr(s_B), PyInt(4)),
      GrowthRec(PyInt(2), PyStr(s_B), PyInt(5)),
      GrowthRec(PyStr(s_b), PyStr(s_D), PyInt(16)),
      Dict(<<Entry(s_type, PyStr(s_A)), Entry(s_sales, PyInt(3))>>),
      GrowthRec(PyStr(s_a), Null, PyStr(s_x)) }

\* "a_b" and "a b" both print as "a b"
TwinRecs ==
    {Dict(<<Entry(s_type, PyStr(t)), Entry(s_a_b, PyInt(a)), Entry(s_a_space_b, PyInt(b))>>) :
        t \in {s_A, s_B}, a, b \in {1, 4}}

InitAnalyze ==
    /\ pc = "start"
    /\ \/ data = NonList
       \/ \E n \in 0..MaxBadItems : \E l \in [1..n -> BadItems] : data = List(l)
       \/ \E n \in 1..MaxDriftRecs : \E l \in [1..n -> DriftRecs] : data = List(l)
       \/ \E n \in 1..MaxGrowthRecs : \E l \in [1..n -> GrowthRecs] : data = List(l)
       \/ \E n \in 1..MaxTwinRecs : \E l \in [1..n -> TwinRecs] : data = List(l)
    /\ result = Raised
    /\ prev = Raised

AnalyzeData ==
    /\ pc = "start"
    /\ \E hash_seed \in 0..MaxSeed : result' = analyze_data(data, hash_seed)
    /\ pc' = "analyzed"
    /\ UNCHANGED <<data, prev>>

NextAnalyze == AnalyzeData

SpecAnalyze == InitAnalyze /\ [][NextAnalyze]_vars

Range(s) == {s[i] : i \in 1..Len(s)}

\* The input is a list of records, and not empty
IsRecordList(d) ==
    d.t = "list" /\ d.items # <<>> /\ \A i \in 1..Len(d.items) : d.items[i].t = "dict"

\* The four generators returned: no exception left analyze_data's try
GeneratorsReturn == IsRecordList(data) /\ ~collected_insights(data.items).exc

\* The distinct strings the four generators yield together
Yielded == Range(collected_insights(data.items).val)

\* C1: analyze_data never propagates an exception to its caller: for every
\* input value (a record list, the empty list, what is no list, a list
\* with items that are no records, values of drifting type) it returns a
\* list of strings.
C1_ReturnsListOfStrings ==
    pc = "analyzed" =>
        /\ ~result.exc
        /\ \A i \in 1..Len(result.val) : result.val[i].t # ""

\* An exception left the try, and the caller received the error string
C1_Witness ==
    /\ pc = "analyzed"
    /\ analyze_data_body(data, 0).exc
    /\ result = Ok(<<ErrorAnalyzing>>)

\* The numeric fields of the record list whose values all convert
HealthyFields ==
    LET numeric_fields == identify_numeric_fields(data.items).val
    IN  {numeric_fields[i] : i \in 1..Len(numeric_fields)}
        \ {f \in Range(numeric_fields) : values_raise(data.items, f)}

\* One numeric field of the record list holds a value that does not convert
HasFaultyField ==
    \E f \in Range(identify_numeric_fields(data.items).val) : values_raise(data.items, f)

\* C2: a computational fault in one numeric field (a value that cannot be
\* coerced to a number inside a field that passed the 80% threshold) drops
\* only that field's contribution: analyze_data still returns the insights
\* of every other field.
C2_FaultDropsOnlyItsField ==
    (pc = "analyzed" /\ IsRecordList(data) /\ HasFaultyField) =>
        \A g \in HealthyFields :
            Range(field_statistics(g, values_of(data.items, g))) \subseteq Range(result.val)

\* C3: for every non-empty record list on which the four generators yield
\* k distinct strings, analyze_data returns exactly those k strings
\* followed by exactly the 5 recommendation strings if k < 3, and exactly
\* the k strings and no recommendation string if k >= 3.
C3_FallbackBelowThree ==
    (pc = "analyzed" /\ IsRecordList(data)) =>
        LET collected == collected_insights(data.items)
            yielded == Range(collected.val)
            k == Cardinality(yielded)
        IN  ~collected.exc =>
                /\ ~result.exc
                /\ {result.val[i] : i \in 1..MinOf(k, Len(result.val))} = yielded
                /\ IF k < 3
                   THEN /\ Len(result.val) = k + 5
                        /\ SubSeq(result.val, k + 1, k + 5) = generate_recommendations
                   ELSE /\ Len(result.val) = k
                        /\ Range(result.val) \cap Range(generate_recommendations) = {}

\* Two distinct strings were yielded and the recommendations follow them
C3_Witness ==
    /\ pc = "analyzed"
    /\ GeneratorsReturn
    /\ Cardinality(Yielded) = 2
    /\ Len(result.val) = 7

\* C4: the list analyze_data returns never holds the same string twice:
\* a string that two fields or two generators produce alike appears once,
\* also after the recommendation strings are appended.
C4_NoStringTwice ==
    (pc = "analyzed" /\ ~result.exc) =>
        \A i, j \in 1..Len(result.val) : i # j => result.val[i] # result.val[j]

\* Two fields yielded the same strings, fewer than three distinct ones, and
\* the recommendations were appended
C4_Witness ==
    /\ pc = "analyzed"
    /\ GeneratorsReturn
    /\ Len(collected_insights(data.items).val) > Cardinality(Yielded)
    /\ Cardinality(Yielded) < 3
    /\ Len(result.val) = Cardinality(Yielded) + 5

(***************************************************************************)
(* generate_trend_insights as analyze_data calls it, on short lists of     *)
(* records with a date and a number (dates that repeat, a date of another  *)
(* type, values on both sides of the two thresholds) and on long lists of  *)
(* records with a date and two numbers of which one drifts to a string.    *)
(***************************************************************************)

MaxTrendRecs == 3

LongTrendRecs == 7

s_c == <<"c">>

s_d == <<"d">>

s_e == <<"e">>

s_f == <<"f">>

s_g == <<"g">>

s_h == <<"h">>

TrendRecs ==
    {Dict(<<Entry(s_date, d), Entry(s_sales, PyInt(v))>>) :
        d \in {PyStr(s_a), PyStr(s_b), PyInt(2)}, v \in {0, 9, 10, 11}}

\* The dates of a long list, by position, out of order
LongDates == <<s_c, s_a, s_b, s_f, s_e, s_d, s_g, s_h>>

LongValues ==
    {<<PyInt(10), PyInt(4)>>, <<PyInt(20), PyInt(4)>>, <<PyStr(s_x), PyInt(5)>>}

LongTrendRec(i, values) ==
    Dict(<<Entry(s_date, PyStr(LongDates[i])), Entry(s_sales, values[1]),
           Entry(s_cost, values[2])>>)

InitTrend ==
    /\ pc = "start"
    /\ \/ \E n \in 1..MaxTrendRecs : \E l \in [1..n -> TrendRecs] : data = List(l)
       \/ \E n \in 6..LongTrendRecs : \E l \in [1..n -> LongValues] :
             data = List([i \in 1..n |-> LongTrendRec(i, l[i])])
    /\ result = Raised
    /\ prev = Raised

\* trend_insights = generate_trend_insights(data, date_fields, numeric_fields)
GenerateTrendInsights ==
    /\ pc = "start"
    /\ ~identify_numeric_fields(data.items).exc
    /\ result' = Ok(generate_trend_insights(data.items,
                                            identify_date_fields(data.items).val,
                                            identify_numeric_fields(data.items).val))
    /\ pc' = "trended"
    /\ UNCHANGED <<data, prev>>

NextTrend == GenerateTrendInsights

SpecTrend == InitTrend /\ [][NextTrend]_vars

\* The first and the last of the pairs in ascending order of their dates,
\* pairs of the same date in the order of the records
FirstPair(pairs, date) ==
    CHOOSE i \in pairs :
        \A j \in pairs :
            \/ value_less(date[i], date[j])
            \/ ~value_less(date[j], date[i]) /\ i <= j

LastPair(pairs, date) ==
    CHOOSE i \in pairs :
        \A j \in pairs :
            \/ value_less(date[j], date[i])
            \/ ~value_less(date[i], date[j]) /\ j <= i

\* The bucket of the percent change from first to last, the change being 0
\* when first is not positive
BucketOf(first, last) ==
    IF first > 0 /\ 100 * (last - first) > 10 * first THEN "shows an increasing trend"
    ELSE IF first > 0 /\ 100 * (last - first) < -10 * first THEN "shows a decreasing trend"
    ELSE "remains relatively stable"

OverallTemplates ==
    {"shows an increasing trend", "shows a decreasing trend", "remains relatively stable"}

\* What the claim says of one numeric field: its (date, value) pairs (the
\* date present and not empty, the value present and not None), whether the
\* raw dates can be put in ascending order and the values all convert, the
\* bucket of its change, and the overall-trend statements returned for it
TrendCase(field) ==
    LET date_field == identify_date_fields(data.items).val[1]
        pairs == {i \in 1..Len(data.items) : is_data_point(data.items[i], date_field, field)}
        date == [i \in pairs |-> Get(data.items[i].d, date_field)]
        value == [i \in pairs |-> Get(data.items[i].d, field)]
        orderable == \A i, j \in pairs : comparable(date[i], date[j])
        coercible == \A i \in pairs : float_ok(value[i])
    IN  [ pairs |-> Cardinality(pairs),
          regular |-> orderable /\ coercible,
          mixed |-> ~orderable,
          bucket |-> IF orderable /\ coercible /\ pairs # {}
                     THEN BucketOf(to_float(value[FirstPair(pairs, date)]),
                                   to_float(value[LastPair(pairs, date)]))
                     ELSE "",
          statements |-> {k \in 1..Len(result.val) :
                             /\ result.val[k].t \in OverallTemplates
                             /\ result.val[k].f = printed(field)} ]

\* The numeric fields, when there is a date field
TrendFields ==
    IF identify_date_fields(data.items).val = <<>> THEN {}
    ELSE Range(identify_numeric_fields(data.items).val)

\* C8 as stated: every numeric field with at least 3 (date, value) pairs
\* gets exactly one overall-trend statement, in the bucket of its change.
C8_OneStatementPerField ==
    pc = "trended" =>
        \A f \in TrendFields :
            LET case == TrendCase(f)
            IN  case.pairs >= 3 =>
                    /\ Cardinality(case.statements) = 1
                    /\ case.regular =>
                           \A k \in case.statements : result.val[k].t = case.bucket

\* C8: for every numeric field with at least 3 (date, value) pairs whose
\* raw dates are mutually comparable and whose values all convert to
\* numbers, generate_trend_insights emits exactly one overall-trend
\* statement: increasing iff the percent change from the first to the last
\* pair in ascending raw-date order is above 10, decreasing iff it is below
\* -10, stable otherwise (a change of exactly 10 or -10 and a first value
\* <= 0 are stable); a field whose dates mix strings and numbers, or with a
\* value that does not convert, gets no trend statement.
C8_OneStatementWhenOrderable ==
    pc = "trended" =>
        \A f \in TrendFields :
            LET case == TrendCase(f)
            IN  case.pairs >= 3 =>
                    IF case.regular
                    THEN /\ Cardinality(case.statements) = 1
                         /\ \A k \in case.statements : result.val[k].t = case.bucket
                    ELSE case.statements = {}

\* A change of exactly 10 percent was reported as stable
C8_Witness ==
    /\ pc = "trended"
    /\ s_sales \in TrendFields
    /\ TrendCase(s_sales).pairs >= 3
    /\ TrendCase(s_sales).regular
    /\ \E k \in TrendCase(s_sales).statements :
          result.val[k].t = "remains relatively stable" /\ result.val[k].a = <<100>>

\* Three pairs whose dates mix strings and numbers got no statement
C8_WitnessMixedDates ==
    /\ pc = "trended"
    /\ \E f \in TrendFields :
          /\ TrendCase(f).pairs >= 3
          /\ TrendCase(f).mixed
          /\ TrendCase(f).statements = {}

(***************************************************************************)
(* The table of create_visualizations.  pd.DataFrame(data) has one column  *)
(* per key, in the order in which the keys first appear, and one row per   *)
(* record; a key a record lacks is a missing cell.  A column is            *)
(* [name, values], values by row.  The list starts with a record; its     *)
(* other items are records or None.                                       *)
(***************************************************************************)

\* A timestamp, made of a number (n) or of a date string (s), and NaT
Timestamp(n, s) == [k |-> "ts", n |-> n, s |-> s]

NaT == [k |-> "nat", n |-> 0, s |-> <<>>]

\* A cell that groupby, sum and mean leave out
is_missing(v) == v.k \in {"null", "nan", "nat"}

RECURSIVE columns_of(_)
columns_of(items) ==
    IF items = <<>> THEN <<>>
    ELSE LET before == columns_of(SubSeq(items, 1, Len(items) - 1))
             keys == Keys(items[Len(items)].d)
         IN  before \o SelectSeq(keys, LAMBDA key : \A i \in 1..Len(before) : before[i] # key)

\* pd.DataFrame(data) on a list that starts with a record asks every item
\* for its keys, and None has none: AttributeError
frame_raises(items) == \E i \in 1..Len(items) : items[i].t = "none"

DataFrame(items) ==
    LET names == columns_of(items)
    IN  [c \in 1..Len(names) |->
            [name |-> names[c],
             values |-> [r \in 1..Len(items) |->
                            IF HasKey(items[r].d, names[c])
                            THEN Get(items[r].d, names[c])
                            ELSE NaN]]]

\* len(df)
RowCount(df) == IF df = <<>> THEN 0 ELSE Len(df[1].values)

Column(df, name) == df[CHOOSE c \in 1..Len(df) : df[c].name = name]

\* The dtype of the column is a number dtype: every cell is a number or
\* missing, and not every cell is None
is_number_column(col) ==
    /\ \A r \in 1..Len(col.values) : col.values[r].k \in {"int", "float", "nan", "null"}
    /\ \E r \in 1..Len(col.values) : col.values[r].k \in {"int", "float", "nan"}

\* df.select_dtypes(include=['number']).columns.tolist()
numeric_cols_of(df) ==
    LET cols == SelectSeq(df, is_number_column)
    IN  [c \in 1..Len(cols) |-> cols[c].name]

\* [col for col in df.columns if any(term in col.lower() for term in terms)]
columns_with(df, terms) ==
    LET cols == SelectSeq(df, LAMBDA col : ContainsAny(Lower(col.name), terms))
    IN  [c \in 1..Len(cols) |-> cols[c].name]

chart_date_terms == <<s_date, s_month, s_year, s_quarter, s_period>>

chart_category_terms == <<s_category, s_type, s_segment, s_department, s_division, s_product>>

\* A string pd.to_datetime reads as a date: digits and dashes after a digit
parses_as_date(s) ==
    /\ s # <<>>
    /\ s[1] \in DigitSet
    /\ \A i \in 1..Len(s) : s[i] \in DigitSet \cup {"-"}

\* pd.to_datetime(value, errors='coerce'): a number is read as a time since
\* the epoch, a string that is no date becomes NaT
to_datetime(v) ==
    CASE v.k \in {"int", "float"} -> Timestamp(v.n, <<>>)
      [] v.k = "str" /\ parses_as_date(v.s) -> Timestamp(0, v.s)
      [] v.k = "ts" -> v
      [] OTHER -> NaT

\* df[date_col] = pd.to_datetime(df[date_col], errors='coerce'): the column
\* of the table itself is replaced
with_datetime(df, name) ==
    [c \in 1..Len(df) |->
        IF df[c].name = name
        THEN [df[c] EXCEPT !.values = [r \in 1..Len(@) |-> to_datetime(@[r])]]
        ELSE df[c]]

\* a < b for two group keys: numbers before strings, timestamps made of
\* numbers (close to the epoch) before timestamps made of date strings
key_less(a, b) ==
    CASE a.k = "ts" /\ b.k = "ts" ->
            IF a.s = <<>> /\ b.s = <<>> THEN a.n < b.n
            ELSE IF a.s = <<>> THEN TRUE
            ELSE IF b.s = <<>> THEN FALSE
            ELSE StrLess(a.s, b.s)
      [] IsNumber(a) /\ IsNumber(b) -> a.n < b.n
      [] IsNumber(a) -> TRUE
      [] IsNumber(b) -> FALSE
      [] OTHER -> StrLess(a.s, b.s)

\* Two cells are the same group key
same_key(a, b) == IF IsNumber(a) /\ IsNumber(b) THEN a.n = b.n ELSE a = b

RECURSIVE insert_key(_, _)
insert_key(key, sorted) ==
    IF sorted = <<>> THEN <<key>>
    ELSE IF same_key(key, Head(sorted)) THEN sorted
    ELSE IF key_less(key, Head(sorted)) THEN <<key>> \o sorted
    ELSE <<Head(sorted)>> \o insert_key(key, Tail(sorted))

\* The group keys of df.groupby(name): the distinct cells of the column that
\* are not missing, in ascending order
RECURSIVE group_keys_of(_)
group_keys_of(values) ==
    IF values = <<>> THEN <<>>
    ELSE IF is_missing(Head(values)) THEN group_keys_of(Tail(values))
    ELSE insert_key(Head(values), group_keys_of(Tail(values)))

\* The cells of a column in the rows of one group that are not missing
group_values(df, key_name, key, name) ==
    LET keys == Column(df, key_name).values
        cells == Column(df, name).values
        rows == SelectSeq([r \in 1..Len(keys) |-> r],
                          LAMBDA r : same_key(keys[r], key) /\ ~is_missing(cells[r]))
    IN  [i \in 1..Len(rows) |-> cells[rows[i]].n]

(***************************************************************************)
(* The chart generators.  A chart is its type, the columns its title       *)
(* names, its labels and its datasets; NoChart is the None a generator     *)
(* returns when it does not apply or when an exception ends it.            *)
(***************************************************************************)

Chart(type, title, labels, datasets) ==
    [type |-> type, title |-> title, labels |-> labels, datasets |-> datasets]

NoChart == Chart("none", <<>>, <<>>, <<>>)

Dataset(label, values) == [label |-> label, data |-> values]

FirstN(s, n) == SubSeq(s, 1, MinOf(n, Len(s)))

\* grouped[col] of df.groupby(date_col)[cols].mean(): the mean of the cells
\* of each group as <<sum, count>>, <<0, 0>> for a group without a cell
group_means(df, key_name, name) ==
    LET keys == group_keys_of(Column(df, key_name).values)
    IN  [g \in 1..Len(keys) |->
            LET cells == group_values(df, key_name, keys[g], name)
            IN  <<SumSeq(cells), Len(cells)>>]

\* create_time_series_chart: the chart and the table it leaves behind.  The
\* date column of the table is converted before the chart is built;
\* reset_index raises ValueError when the date column is itself one of the
\* selected numeric columns.
create_time_series_chart(df) ==
    LET date_columns == columns_with(df, chart_date_terms)
        numeric_cols == numeric_cols_of(df)
    IN  IF date_columns = <<>> \/ numeric_cols = <<>>
        THEN [chart |-> NoChart, df |-> df, raised |-> FALSE]
        ELSE LET date_col == date_columns[1]
                 selected_numeric_cols == FirstN(numeric_cols, 3)
                 converted == with_datetime(df, date_col)
             IN  IF \E c \in 1..Len(selected_numeric_cols) : selected_numeric_cols[c] = date_col
                 THEN [chart |-> NoChart, df |-> converted, raised |-> TRUE]
                 ELSE [chart |->
                           Chart("line", selected_numeric_cols,
                                 group_keys_of(Column(converted, date_col).values),
                                 [c \in 1..Len(selected_numeric_cols) |->
                                     Dataset(selected_numeric_cols[c],
                                             group_means(converted, date_col,
                                                         selected_numeric_cols[c]))]),
                       df |-> converted,
                       raised |-> FALSE]

\* df.groupby(category_col)[numeric_col].sum().reset_index(): <<key, sum>>
\* for each group, in ascending order of the keys
grouped_sums(df, category_col, numeric_col) ==
    LET keys == group_keys_of(Column(df, category_col).values)
    IN  [g \in 1..Len(keys) |->
            <<keys[g], SumSeq(group_values(df, category_col, keys[g], numeric_col))>>]

\* e goes behind the entries that are not smaller, or, with the ties
\* reversed, behind the larger ones only
RECURSIVE insert_by_value(_, _, _)
insert_by_value(e, sorted, reversed) ==
    IF sorted = <<>> THEN <<e>>
    ELSE IF Head(sorted)[2] < e[2] \/ (reversed /\ Head(sorted)[2] = e[2]) THEN <<e>> \o sorted
    ELSE <<Head(sorted)>> \o insert_by_value(e, Tail(sorted), reversed)

\* grouped.sort_values(by=numeric_col, ascending=False): the default
\* quicksort promises no order among equal sums; reversed chooses between
\* the order of the keys and its reverse
RECURSIVE sort_values_descending(_, _)
sort_values_descending(entries, reversed) ==
    IF entries = <<>> THEN <<>>
    ELSE insert_by_value(entries[Len(entries)],
                         sort_values_descending(SubSeq(entries, 1, Len(entries) - 1), reversed),
                         reversed)

labels_of(grouped) == [i \in 1..Len(grouped) |-> grouped[i][1]]

data_of(grouped) == [i \in 1..Len(grouped) |-> grouped[i][2]]

\* The grouping both category charts start with, or the exception:
\* reset_index raises ValueError when the category column is itself the
\* first numeric column
category_grouping(df, reversed) ==
    LET category_columns == columns_with(df, chart_category_terms)
        numeric_cols == numeric_cols_of(df)
    IN  IF category_columns = <<>> \/ numeric_cols = <<>>
        THEN [applies |-> FALSE, raised |-> FALSE, grouped |-> <<>>]
        ELSE IF numeric_cols[1] = category_columns[1]
        THEN [applies |-> FALSE, raised |-> TRUE, grouped |-> <<>>]
        ELSE [applies |-> TRUE,
              raised |-> FALSE,
              grouped |-> sort_values_descending(
                              grouped_sums(df, category_columns[1], numeric_cols[1]), reversed)]

create_category_comparison_chart(df, reversed) ==
    LET grouping == category_grouping(df, reversed)
    IN  IF ~grouping.applies THEN NoChart
        ELSE LET grouped == FirstN(grouping.grouped, 10)
             IN  Chart("bar",
                       <<numeric_cols_of(df)[1], columns_with(df, chart_category_terms)[1]>>,
                       labels_of(grouped),
                       <<Dataset(numeric_cols_of(df)[1], data_of(grouped))>>)

s_Other == <<"O", "t", "h", "e", "r">>

\* Above 8 groups: the first 7 and a row 'Other' with the sum of the rest
fold_other_from_nine(grouped) ==
    IF Len(grouped) > 9
    THEN FirstN(grouped, 7)
         \o <<<<PyStr(s_Other), SumSeq(data_of(SubSeq(grouped, 8, Len(grouped))))>>>>
    ELSE grouped

\* The row 'Other' with the sum of the rows behind the eighth
fold_other_behind_eighth(grouped) ==
    IF Len(grouped) > 8
    THEN FirstN(grouped, 7)
         \o <<<<PyStr(s_Other), SumSeq(data_of(SubSeq(grouped, 9, Len(grouped))))>>>>
    ELSE grouped

fold_other(grouped) ==
    IF Len(grouped) > 8
    THEN FirstN(grouped, 7)
         \o <<<<PyStr(s_Other), SumSeq(data_of(SubSeq(grouped, 8, Len(grouped))))>>>>
    ELSE grouped

create_composition_chart(df, reversed) ==
    LET grouping == category_grouping(df, reversed)
    IN  IF ~grouping.applies THEN NoChart
        ELSE LET grouped == fold_other(grouping.grouped)
             IN  Chart("pie",
                       <<numeric_cols_of(df)[1], columns_with(df, chart_category_terms)[1]>>,
                       labels_of(grouped),
                       <<Dataset(numeric_cols_of(df)[1], data_of(grouped))>>)

\* The numbers of a column, the missing cells left out
numbers_of(col) ==
    LET cells == SelectSeq(col.values, LAMBDA v : ~is_missing(v))
    IN  [i \in 1..Len(cells) |-> cells[i].n]

\* n_bins = min(10, len(df) // 5) if len(df) > 10 else 5
n_bins_of(rows) == IF rows > 10 THEN MinOf(10, rows \div 5) ELSE 5

\* The bin edges of pd.cut(values, bins=n_bins), each times 1000 * n_bins:
\* n_bins equal bins from the minimum to the maximum, the lowest edge moved
\* down by 0.1% of the range; a single value is widened by 0.1% of itself
\* (by 0.001 around 0) on both sides
cut_edges(values, n_bins) ==
    LET mn == MinSeq(values)
        mx == MaxSeq(values)
        widen == IF mn = 0 THEN 1 ELSE Abs(mn)
    IN  IF mn = mx
        THEN [i \in 1..(n_bins + 1) |->
                 n_bins * (1000 * mn - widen) + (i - 1) * 2 * widen]
        ELSE [i \in 1..(n_bins + 1) |->
                 IF i = 1 THEN n_bins * (1000 * mn - (mx - mn))
                 ELSE 1000 * n_bins * mn + 1000 * (i - 1) * (mx - mn)]

\* np.histogram(empty, bins=n_bins) spreads its bins over 0..1
unit_edges(n_bins) == [i \in 1..(n_bins + 1) |-> 1000 * (i - 1)]

\* The counts of the bins that hold a value only
cut_counts_observed(values, edges, n_bins) ==
    SelectSeq([b \in 1..n_bins |->
                  Cardinality({i \in 1..Len(values) :
                      LET scaled == 1000 * n_bins * values[i]
                      IN  /\ scaled <= edges[b + 1]
                          /\ edges[b] < scaled \/ (b = 1 /\ edges[b] = scaled)})],
              LAMBDA count : count > 0)

\* pd.cut(values, bins=edges, include_lowest=True).value_counts()
\* .sort_index(): the values in (edge, next edge], the lowest edge included
cut_counts(values, edges, n_bins) ==
    [b \in 1..n_bins |->
        Cardinality({i \in 1..Len(values) :
            LET scaled == 1000 * n_bins * values[i]
            IN  /\ scaled <= edges[b + 1]
                /\ edges[b] < scaled \/ (b = 1 /\ edges[b] = scaled)})]

\* np.histogram(values, bins=edges): the values in [edge, next edge), the
\* highest edge included
histogram_counts(values, edges, n_bins) ==
    [b \in 1..n_bins |->
        Cardinality({i \in 1..Len(values) :
            LET scaled == 1000 * n_bins * values[i]
            IN  /\ edges[b] <= scaled
                /\ scaled < edges[b + 1] \/ (b = n_bins /\ edges[b + 1] = scaled)})]

\* f"{bin_edges[i]:.1f}-{bin_edges[i+1]:.1f}"
bin_labels_of(edges, n_bins) ==
    [b \in 1..n_bins |->
        <<Fmt1(Rat(edges[b], 1000 * n_bins)), Fmt1(Rat(edges[b + 1], 1000 * n_bins))>>]

\* create_distribution_chart: pd.cut raises on a first column without a
\* number, and np.histogram takes its place
create_distribution_chart(df) ==
    LET numeric_cols == numeric_cols_of(df)
    IN  IF Len(numeric_cols) < 2 THEN NoChart
        ELSE LET n_bins == n_bins_of(RowCount(df))
                 values1 == numbers_of(Column(df, numeric_cols[1]))
                 values2 == numbers_of(Column(df, numeric_cols[2]))
                 cut == values1 # <<>>
                 bin_edges == IF cut THEN cut_edges(values1, n_bins) ELSE unit_edges(n_bins)
             IN  Chart("bar", <<numeric_cols[1], numeric_cols[2]>>,
                       bin_labels_of(bin_edges, n_bins),
                       << Dataset(numeric_cols[1],
                                  IF cut THEN cut_counts(values1, bin_edges, n_bins)
                                  ELSE histogram_counts(values1, bin_edges, n_bins)),
                          Dataset(numeric_cols[2],
                                  IF cut THEN cut_counts(values2, bin_edges, n_bins)
                                  ELSE histogram_counts(values2, bin_edges, n_bins)) >>)

s_Data_Points == <<"D", "a", "t", "a", " ", "P", "o", "i", "n", "t", "s">>

create_correlation_chart(df) ==
    LET numeric_cols == numeric_cols_of(df)
    IN  IF Len(numeric_cols) < 2 THEN NoChart
        ELSE Chart("scatter", <<numeric_cols[1], numeric_cols[2]>>,
                   <<numeric_cols[1], numeric_cols[2]>>,
                   <<Dataset(s_Data_Points,
                             <<Column(df, numeric_cols[1]).values,
                               Column(df, numeric_cols[2]).values>>)>>)

\* visualizations.append(chart) if the chart is not None
appended(visualizations, chart) ==
    IF chart.type = "none" THEN visualizations ELSE Append(visualizations, chart)

\* A time-series generator that returns one chart for each selected column
time_series_per_column(visualizations, chart) ==
    IF chart.type = "none" THEN visualizations
    ELSE visualizations
         \o [c \in 1..Len(chart.datasets) |->
                Chart("line", <<chart.title[c]>>, chart.labels, <<chart.datasets[c]>>)]

\* if time_series: visualizations.append(time_series)
time_series_appended(visualizations, chart) == appended(visualizations, chart)

\* The correlation chart is tried after any number of charts
with_correlation_always(visualizations, df) ==
    appended(visualizations, create_correlation_chart(df))

\* The correlation chart is tried below two charts
with_correlation(visualizations, df) ==
    IF Len(visualizations) < 2
    THEN appended(visualizations, create_correlation_chart(df))
    ELSE visualizations

\* create_visualizations in which the exception of a generator ends the
\* call with the empty list
create_visualizations_all_or_nothing(d, reversed) ==
    IF d.t # "list" \/ d.items = <<>> THEN <<>>
    ELSE IF frame_raises(d.items) THEN <<>>
    ELSE LET time_series == create_time_series_chart(DataFrame(d.items))
             df == time_series.df
         IN  IF time_series.raised \/ category_grouping(df, reversed).raised THEN <<>>
             ELSE with_correlation(
                      appended(
                          appended(
                              appended(time_series_appended(<<>>, time_series.chart),
                                       create_category_comparison_chart(df, reversed)),
                              create_distribution_chart(df)),
                          create_composition_chart(df, reversed)),
                      df)

\* create_visualizations: every generator works on the one table, which the
\* time-series generator has changed
create_visualizations(d, reversed) ==
    IF d.t # "list" \/ d.items = <<>> THEN <<>>
    ELSE IF frame_raises(d.items) THEN <<>>
    ELSE LET time_series == create_time_series_chart(DataFrame(d.items))
             df == time_series.df
         IN  with_correlation(
                 appended(
                     appended(
                         appended(time_series_appended(<<>>, time_series.chart),
                                  create_category_comparison_chart(df, reversed)),
                         create_distribution_chart(df)),
                     create_composition_chart(df, reversed)),
                 df)

(***************************************************************************)
(* create_visualizations on what process_data_file returns: a value that   *)
(* is no list, the empty list, and lists of records.  The records are      *)
(* short lists over a few shapes of record, lists whose date column holds  *)
(* numbers, and lists of category rows with up to MaxPieRows rows.  A      *)
(* direct caller can also pass a list in which None follows a record.      *)
(***************************************************************************)

MaxVizRecs == 2

MaxPieRows == 10

\* The rows of a list of category rows whose revenue is raised by one
MaxRaisedRows == 2

s_2023_01 == <<"2", "0", "2", "3", "-", "0", "1">>

s_2023_02 == <<"2", "0", "2", "3", "-", "0", "2">>

VizRecs ==
    { Dict(<<Entry(s_date, PyStr(s_2023_01)), Entry(s_category, PyStr(s_A)),
             Entry(s_revenue, PyInt(1)), Entry(s_expenses, PyInt(2)), Entry(s_profit, PyInt(3))>>),
      Dict(<<Entry(s_date, PyStr(s_2023_02)), Entry(s_category, PyStr(s_B)),
             Entry(s_revenue, PyInt(2)), Entry(s_expenses, PyInt(2)), Entry(s_profit, PyInt(1))>>),
      Dict(<<Entry(s_category, PyStr(s_A)), Entry(s_revenue, PyInt(1))>>),
      Dict(<<Entry(s_category, PyStr(s_B)), Entry(s_revenue, PyInt(1))>>),
      Dict(<<Entry(s_category, Null), Entry(s_revenue, PyInt(3))>>),
      Dict(<<Entry(s_category, PyInt(1)), Entry(s_revenue, PyInt(2))>>),
      Dict(<<Entry(s_revenue, PyInt(1)), Entry(s_expenses, PyInt(2))>>),
      Dict(<<Entry(s_revenue, PyStr(s_x)), Entry(s_expenses, PyInt(2))>>),
      Dict(<<Entry(s_date, PyStr(s_2023_01)), Entry(s_revenue, PyInt(1))>>),
      Dict(<<Entry(s_date, PyStr(s_x)), Entry(s_revenue, PyInt(2))>>),
      Dict(<<>>) }

\* Records whose date is a number, as clean_data leaves a year
NumberDateRecs ==
    { Dict(<<Entry(s_date, PyFloat(2023)), Entry(s_category, PyStr(s_A)),
             Entry(s_revenue, PyInt(1)), Entry(s_expenses, PyInt(2))>>),
      Dict(<<Entry(s_date, PyFloat(2024)), Entry(s_category, PyStr(s_B)),
             Entry(s_revenue, PyInt(2)), Entry(s_expenses, PyInt(1))>>),
      Dict(<<Entry(s_date, PyFloat(2023)), Entry(s_revenue, PyInt(2))>>) }

\* The category of row i among m categories: c1, c2, ...
PieCategory(i, m) == PyStr(<<"c">> \o IntToStr(((i - 1) % m) + 1))

\* Row i: its category and a revenue, which grows with the row when the
\* rows are spread
PieRec(i, m, base, spread) ==
    Dict(<<Entry(s_category, PieCategory(i, m)),
           Entry(s_revenue, PyInt(base + 2 * i * spread))>>)

InitViz ==
    /\ pc = "start"
    /\ \/ data = NonList
       \/ \E n \in 0..MaxVizRecs : \E l \in [1..n -> VizRecs] : data = List(l)
       \/ \E n \in 1..MaxVizRecs : \E l \in [1..n -> NumberDateRecs] : data = List(l)
       \/ \E n \in 1..MaxVizRecs : \E l \in [1..n -> VizRecs \cup {NoneItem}] :
             /\ l[1] \in VizRecs
             /\ \E i \in 1..n : l[i] = NoneItem
             /\ data = List(l)
       \/ \E n \in 1..MaxPieRows : \E m \in 1..n : \E spread \in 0..1 :
             \E raised \in {rows \in SUBSET (1..n) : Cardinality(rows) <= MaxRaisedRows} :
                data = List([i \in 1..n |->
                                PieRec(i, m, IF i \in raised THEN 2 ELSE 1, spread)])
    /\ result = Raised
    /\ prev = Raised

\* viz_data = create_visualizations(processed_data)
CreateVisualizations ==
    /\ pc = "start"
    /\ \E reversed \in BOOLEAN : result' = Ok(create_visualizations(data, reversed))
    /\ pc' = "visualized"
    /\ UNCHANGED <<data, prev>>

NextViz == CreateVisualizations

SpecViz == InitViz /\ [][NextViz]_vars

(***************************************************************************)
(* Claims about the charts                                                 *)
(***************************************************************************)

\* The table the composition generator is handed: the table of the records
\* after the time-series generator has run on it
PieTable == create_time_series_chart(DataFrame(data.items)).df

\* The rows of a column that hold the given cell
RowsOf(col, cell) == {r \in 1..Len(col.values) : col.values[r] = cell}

RECURSIVE SumOfRows(_, _)
SumOfRows(col, rows) ==
    IF rows = {} THEN 0
    ELSE LET r == CHOOSE x \in rows : TRUE
         IN  (IF is_missing(col.values[r]) THEN 0 ELSE col.values[r].n)
             + SumOfRows(col, rows \ {r})

RECURSIVE SumOfTotals(_, _)
SumOfTotals(total, cats) ==
    IF cats = {} THEN 0
    ELSE LET c == CHOOSE x \in cats : TRUE
         IN  total[c] + SumOfTotals(total, cats \ {c})

\* The pie chart of the result and what the table says about it: the
\* distinct categories of the first category column and the sum of the
\* first numeric column in each
PieCase ==
    LET charts == result.val
        at == {i \in 1..Len(charts) : charts[i].type = "pie"}
    IN  IF pc # "visualized" \/ at = {}
        THEN [drawn |-> FALSE, cats |-> {}, total |-> <<>>, labels |-> <<>>, values |-> <<>>]
        ELSE LET chart == charts[CHOOSE i \in at : TRUE]
                 category_col == Column(PieTable, columns_with(PieTable, chart_category_terms)[1])
                 numeric_col == Column(PieTable, numeric_cols_of(PieTable)[1])
                 cats == {category_col.values[r] : r \in 1..Len(category_col.values)}
                             \ {Null, NaN, NaT}
             IN  [drawn |-> TRUE,
                  cats |-> cats,
                  total |-> [c \in cats |-> SumOfRows(numeric_col, RowsOf(category_col, c))],
                  labels |-> chart.labels,
                  values |-> chart.datasets[1].data]

\* Slices 1..n are n different categories, each with its sum, in
\* descending order of sum
SlicesAreCategories(case, n) ==
    /\ \A i \in 1..n : case.labels[i] \in case.cats /\ case.values[i] = case.total[case.labels[i]]
    /\ \A i, j \in 1..n : i < j => case.labels[i] # case.labels[j] /\ case.values[i] >= case.values[j]

\* C9: the pie chart of more than 8 categories has exactly 8 slices, the 7
\* categories with the largest sums in descending order and then 'Other'
\* with the sum of all the categories ranked below them; the pie chart of 8
\* or fewer categories has one slice per category, in descending order of
\* sum, and no slice besides.
C9_OtherFoldsBelowSeventh ==
    LET case == PieCase
    IN  case.drawn =>
            IF Cardinality(case.cats) > 8
            THEN /\ Len(case.labels) = 8 /\ Len(case.values) = 8
                 /\ SlicesAreCategories(case, 7)
                 /\ LET rest == case.cats \ {case.labels[i] : i \in 1..7}
                    IN  /\ \A c \in rest : case.total[c] <= case.values[7]
                        /\ case.labels[8] = PyStr(s_Other)
                        /\ case.values[8] = SumOfTotals(case.total, rest)
            ELSE /\ Len(case.labels) = Cardinality(case.cats)
                 /\ Len(case.values) = Cardinality(case.cats)
                 /\ SlicesAreCategories(case, Cardinality(case.cats))

\* A pie chart of 9 categories with 9 different sums has been drawn
C9_Witness ==
    /\ PieCase.drawn
    /\ Cardinality(PieCase.cats) = 9
    /\ \A c, d \in PieCase.cats : c # d => PieCase.total[c] # PieCase.total[d]

\* A pie chart of exactly 8 categories has been drawn
C9_WitnessEight == PieCase.drawn /\ Cardinality(PieCase.cats) = 8

\* C10: create_visualizations returns at most 5 charts.
C10_AtMostFiveCharts == pc = "visualized" => Len(result.val) <= 5

\* The line, category, distribution and pie charts have all been returned
C10_Witness ==
    /\ pc = "visualized"
    /\ Len(result.val) = 4
    /\ [i \in 1..4 |-> result.val[i].type] = <<"line", "bar", "bar", "pie">>

\* The correlation chart has been added to a single chart
C10_WitnessCorrelation ==
    /\ pc = "visualized"
    /\ Len(result.val) = 2
    /\ result.val[2].type = "scatter"

\* C11: in every chart returned by create_visualizations the labels are as
\* many as the values of each series (line, bar, pie), and the two
\* coordinate arrays of a scatter chart are equally long.
C11_LabelsMatchValues ==
    pc = "visualized" =>
        \A i \in 1..Len(result.val) :
            LET chart == result.val[i]
            IN  IF chart.type = "scatter"
                THEN /\ Len(chart.datasets) = 1
                     /\ Len(chart.datasets[1].data) = 2
                     /\ Len(chart.datasets[1].data[1]) = Len(chart.datasets[1].data[2])
                ELSE \A s \in 1..Len(chart.datasets) :
                         Len(chart.datasets[s].data) = Len(chart.labels)

\* The four charts have been returned, the distribution chart with a bin
\* that holds no value and the line chart with two dates
C11_Witness ==
    /\ pc = "visualized"
    /\ Len(result.val) = 4
    /\ Len(result.val[1].labels) = 2
    /\ \E b \in 1..Len(result.val[3].labels) : result.val[3].datasets[1].data[b] = 0

\* A scatter chart of two rows has been returned
C11_WitnessScatter ==
    /\ pc = "visualized"
    /\ \E i \in 1..Len(result.val) :
          /\ result.val[i].type = "scatter"
          /\ Len(result.val[i].datasets[1].data[1]) = 2

\* What went wrong inside create_visualizations on the data: building the
\* table, the time-series generator, or the two category generators
VizErrors ==
    IF data.t # "list" \/ data.items = <<>>
    THEN [table |-> FALSE, time_series |-> FALSE, category |-> FALSE, columns |-> 0]
    ELSE IF frame_raises(data.items)
    THEN [table |-> TRUE, time_series |-> FALSE, category |-> FALSE, columns |-> 0]
    ELSE LET time_series == create_time_series_chart(DataFrame(data.items))
         IN  [table |-> FALSE,
              time_series |-> time_series.raised,
              category |-> category_grouping(time_series.df, FALSE).raised,
              columns |-> Len(numeric_cols_of(time_series.df))]

ChartTypes == [i \in 1..Len(result.val) |-> result.val[i].type]

\* C12 as stated: create_visualizations raises nothing, and returns the
\* empty list whenever building the table or a chart generator failed.
C12_AnyErrorGivesEmptyList ==
    pc = "visualized" =>
        /\ ~result.exc
        /\ (VizErrors.table \/ VizErrors.time_series \/ VizErrors.category)
               => result.val = <<>>

\* C12, amended: create_visualizations raises nothing; it returns the empty
\* list when building the table failed; a chart generator that failed
\* contributes no chart, and the charts of the other generators are still
\* returned (the distribution chart whenever the table has two numeric
\* columns).
C12_ErrorDropsOnlyItsChart ==
    pc = "visualized" =>
        /\ ~result.exc
        /\ VizErrors.table => result.val = <<>>
        /\ VizErrors.time_series => \A i \in 1..Len(ChartTypes) : ChartTypes[i] # "line"
        /\ VizErrors.category =>
               /\ \A i \in 1..Len(ChartTypes) : ChartTypes[i] # "pie"
               /\ Cardinality({i \in 1..Len(ChartTypes) : ChartTypes[i] = "bar"}) <= 1
        /\ VizErrors.columns >= 2 =>
               \E i \in 1..Len(result.val) :
                   /\ result.val[i].type = "bar"
                   /\ Len(result.val[i].datasets) = 2

\* The category generators failed and the distribution chart was returned
C12_Witness ==
    /\ pc = "visualized"
    /\ VizErrors.category
    /\ ChartTypes = <<"bar", "scatter">>

\* The time-series generator failed and three charts were returned
C12_WitnessTimeSeries ==
    /\ pc = "visualized"
    /\ VizErrors.time_series
    /\ ChartTypes = <<"bar", "bar", "pie">>

\* Building the table failed
C12_WitnessTable == pc = "visualized" /\ VizErrors.table /\ result.val = <<>>

\* C13 as stated: analyze_data returns ["Insufficient data for analysis."]
\* for an input that is no list, for the empty list and for a list whose
\* items are not records.
C13_InsufficientForNonRecords ==
    pc = "analyzed" =>
        ((\/ data.t # "list"
          \/ \A i \in 1..Len(data.items) : data.items[i].t # "dict")
             => result = Ok(<<InsufficientData>>))

\* C13, amended: analyze_data returns ["Insufficient data for analysis."]
\* exactly when its input is no list or is empty; for a list whose first
\* item is not a record it returns ["Error analyzing data. Please check the
\* input format."].
C13_InsufficientForEmptyOrNonList ==
    pc = "analyzed" =>
        /\ (data.t # "list" \/ data.items = <<>>) <=> result = Ok(<<InsufficientData>>)
        /\ (data.t = "list" /\ data.items # <<>> /\ data.items[1].t # "dict")
               => result = Ok(<<ErrorAnalyzing>>)

\* A list of items that are no records has been analyzed
C13_Witness ==
    /\ pc = "analyzed"
    /\ data.t = "list" /\ Len(data.items) = 2
    /\ \A i \in 1..2 : data.items[i].t # "dict"
    /\ result = Ok(<<ErrorAnalyzing>>)

\* The empty list has been analyzed
C13_WitnessEmpty ==
    pc = "analyzed" /\ data = List(<<>>) /\ result = Ok(<<InsufficientData>>)

\* The fields of the three lists that analyze_data computes from the data
RoleFields ==
    LET numeric_fields == identify_numeric_fields(data.items)
        date_fields == identify_date_fields(data.items)
        category_fields == identify_category_fields(data.items)
    IN  IF data.t # "list" \/ numeric_fields.exc \/ date_fields.exc \/ category_fields.exc
        THEN [classified |-> FALSE, numeric |-> {}, date |-> {}, category |-> {}]
        ELSE [classified |-> TRUE,
              numeric |-> Range(numeric_fields.val),
              date |-> Range(date_fields.val),
              category |-> Range(category_fields.val)]

\* C14: the numeric, date and category field lists that analyze_data
\* computes for a record list are pairwise disjoint.
C14_RolesDisjoint ==
    pc = "analyzed" =>
        LET roles == RoleFields
        IN  /\ roles.numeric \cap roles.date = {}
            /\ roles.numeric \cap roles.category = {}
            /\ roles.date \cap roles.category = {}

(***************************************************************************)
(* The records on their way through the program: upload_file cleans and    *)
(* normalises what the decoder read, dashboard analyzes and visualizes the  *)
(* outcome.  data is the list that was passed to the last call, as the     *)
(* call left it; prev is that list as it was before the call.              *)
(***************************************************************************)

MaxPipeRecs == 2

s_Sales_ == <<"S", "a", "l", "e", "s", " ">>

s_2023 == <<"2", "0", "2", "3">>

\* Records as the decoders return them
RawRecs ==
    { Dict(<<Entry(s_Date, PyStr(s_2023_01)), Entry(s_category, PyStr(s_A)),
             Entry(s_Sales_, PyInt(1)), Entry(s_cost, PyInt(2))>>),
      Dict(<<Entry(s_Date, PyStr(s_2023_02)), Entry(s_category, PyStr(s_B)),
             Entry(s_Sales_, PyStr(<<"7">>)), Entry(s_cost, NaN)>>),
      Dict(<<Entry(s_Date, PyStr(s_2023)), Entry(s_Sales_, PyInt(2))>>),
      Dict(<<Entry(s_Date, NaN), Entry(s_Sales_, PyInt(1))>>),
      Dict(<<Entry(s_category, PyStr(s_A)), Entry(s_cost, PyInt(2))>>),
      Dict(<<Entry(s_Sales_, PyStr(s_x)), Entry(s_type, PyStr(s_B))>>),
      Dict(<<Entry(s_cost, PyInt(1))>>),
      Dict(<<>>) }

\* The list passed to clean_data after the call: clean_data assigns to
\* clean_item and cleaned_data, which it has created
data_after_clean_data(d) == d

\* detect_financial_structure assigns to field_mapping, normalized_item and
\* normalized_data only
data_after_detect_financial_structure(d) == d

\* analyze_data and its generators read the records and sort lists of their
\* own
data_after_analyze_data(d) == d

\* The records when the table shares its cells with them: the date column
\* that create_time_series_chart converts is converted in the records too
data_sharing_table(d) ==
    IF d.t # "list" \/ d.items = <<>> THEN d
    ELSE IF frame_raises(d.items) THEN d
    ELSE LET df == create_time_series_chart(DataFrame(d.items)).df
         IN  List([r \in 1..Len(d.items) |->
                 Dict([e \in 1..Len(d.items[r].d) |->
                         Entry(d.items[r].d[e].key,
                               Column(df, d.items[r].d[e].key).values[r])])])

\* pd.DataFrame(data) copies the cells of the records into a table of its
\* own, and create_time_series_chart converts the date column of the table
data_after_create_visualizations(d) == d

InitPipeline ==
    /\ pc = "start"
    /\ \/ data = NonList
       \/ \E n \in 0..MaxPipeRecs : \E l \in [1..n -> RawRecs] : data = List(l)
    /\ result = Raised
    /\ prev = Raised

\* processed_data = clean_data(processed_data)
PipelineClean ==
    /\ pc = "start"
    /\ prev' = Ok(data)
    /\ result' = clean_data(data)
    /\ data' = data_after_clean_data(data)
    /\ pc' = "cleaned"

\* processed_data = detect_financial_structure(processed_data)
PipelineDetect ==
    /\ pc = "cleaned"
    /\ ~result.exc
    /\ prev' = Ok(result.val)
    /\ result' = detect_financial_structure(result.val)
    /\ data' = data_after_detect_financial_structure(result.val)
    /\ pc' = "detected"

\* insights = analyze_data(processed_data)
PipelineAnalyze ==
    /\ pc = "detected"
    /\ ~result.exc
    /\ prev' = Ok(result.val)
    /\ \E hash_seed \in 0..MaxSeed : result' = analyze_data(result.val, hash_seed)
    /\ data' = data_after_analyze_data(result.val)
    /\ pc' = "analyzed"

\* viz_data = create_visualizations(processed_data)
PipelineVisualize ==
    /\ pc = "analyzed"
    /\ prev' = Ok(data)
    /\ \E reversed \in BOOLEAN : result' = Ok(create_visualizations(data, reversed))
    /\ data' = data_after_create_visualizations(data)
    /\ pc' = "visualized"

NextPipeline == PipelineClean \/ PipelineDetect \/ PipelineAnalyze \/ PipelineVisualize

SpecPipeline == InitPipeline /\ [][NextPipeline]_vars

C15_WitnessClean ==
    /\ pc = "cleaned"
    /\ ~result.exc
    /\ result.val # data
    /\ data = prev.val

\* The remap applies: two or more fields of the first record are claimed
RemapCase == FinCase /\ Cardinality(ClaimedFields(data.items[1].d)) >= 2

\* The first matches and the claimed fields of the first record, and whether
\* the remap applies
RemapFacts ==
    IF ~FinCase THEN [applies |-> FALSE, fm |-> <<>>, claimed |-> {}]
    ELSE LET sample == data.items[1].d
             fm == FirstMatches(sample)
             claimed == {sample[fm[t]].key : t \in {u \in Targets : fm[u] # 0}}
         IN  [applies |-> Cardinality(claimed) >= 2, fm |-> fm, claimed |-> claimed]

\* The value of field f of input record i is held under the canonical name
\* of target t in output record i
HeldUnderTarget(i, f, t) ==
    /\ HasKey(result.val.items[i].d, financial_fields[t].type)
    /\ Get(result.val.items[i].d, financial_fields[t].type) = Get(data.items[i].d, f)

\* Another target, later in the declaration order, claims the field too
ClaimedLater(fm, t) == \E u \in Targets : u > t /\ fm[u] = fm[t]

\* The record holds an unclaimed field that is named like the target
NamedLikeTarget(item, claimed, t) ==
    /\ financial_fields[t].type \notin claimed
    /\ HasKey(item, financial_fields[t].type)

Collides(i, e) ==
    LET sample == data.items[1].d
        fm == FirstMatches(sample)
        item == data.items[i].d
    IN  /\ item[e].key \notin ClaimedFields(sample)
        /\ \E t \in Targets :
              /\ fm[t] # 0 /\ ~ClaimedLater(fm, t)
              /\ financial_fields[t].type = item[e].key
              /\ HasKey(item, sample[fm[t]].key)

\* C17: when the remap applies, output record i is made from input record
\* i, for as many records as the input has; an unclaimed field named like a
\* canonical name that the mapping assigns in the record holds the value of
\* the unclaimed field, and every other unclaimed field is copied with its
\* name and value.
C17_UnclaimedFieldsWin ==
    LET facts == RemapFacts
        claimed == facts.claimed
    IN  facts.applies =>
            /\ result.val.t = "list"
            /\ Len(result.val.items) = Len(data.items)
            /\ \A i \in 1..Len(data.items) :
                  LET item == data.items[i].d
                      out == result.val.items[i].d
                  IN  \A e \in 1..Len(item) :
                         item[e].key \notin claimed
                            => HasKey(out, item[e].key) /\ Get(out, item[e].key) = item[e].val

\* The second of two records holds an unclaimed field that collides with a
\* mapped one whose value differs, and an unclaimed field that does not
C17_Witness ==
    /\ RemapCase
    /\ Len(data.items) = 2
    /\ \E e \in 1..Len(data.items[2].d) :
          /\ Collides(2, e)
          /\ \E f \in 1..Len(data.items[2].d) :
                /\ data.items[2].d[f].key \in ClaimedFields(data.items[1].d)
                /\ data.items[2].d[f].val # data.items[2].d[e].val
    /\ \E e \in 1..Len(data.items[2].d) :
          /\ data.items[2].d[e].key \notin ClaimedFields(data.items[1].d)
          /\ ~Collides(2, e)

(***************************************************************************)
(* generate_statistical_insights on lists of records with a sales and a    *)
(* cost field: sales is negative, zero, positive or None, cost is 2 or     *)
(* absent.                                                                 *)
(***************************************************************************)

MaxStatRecs == 5

StatRecs ==
    {Dict(<<Entry(s_sales, v), Entry(s_cost, PyInt(2))>>) :
        v \in {PyInt(-2), PyInt(0), PyInt(1), PyInt(3), Null}}
    \cup {Dict(<<Entry(s_sales, PyInt(1))>>)}

InitStats ==
    /\ pc = "start"
    /\ \E n \in 1..MaxStatRecs : \E l \in [1..n -> StatRecs] : data = List(l)
    /\ result = Raised
    /\ prev = Raised

\* statistical_insights = generate_statistical_insights(data, numeric_fields)
GenerateStatisticalInsights ==
    /\ pc = "start"
    /\ result' = generate_statistical_insights(data.items,
                                               identify_numeric_fields(data.items).val)
    /\ pc' = "described"
    /\ UNCHANGED <<data, prev>>

NextStats == GenerateStatisticalInsights

SpecStats == InitStats /\ [][NextStats]_vars

\* What generate_statistical_insights was given for a field and what it
\* said of it: the values of the field, and the templates of its insights
StatCase(field) ==
    LET values == values_of(data.items, field)
        said == SelectSeq(result.val, LAMBDA insight : insight.f = printed(field))
    IN  [values |-> values,
         total |-> SumSeq(values),
         said |-> [i \in 1..Len(said) |-> said[i].t],
         numbers |-> [i \in 1..Len(said) |-> said[i].a[1]]]

StatFields ==
    IF pc = "described" /\ ~result.exc
    THEN Range(identify_numeric_fields(data.items).val)
    ELSE {}

\* The times a template occurs among what was said
TimesSaid(case, template) ==
    Cardinality({i \in 1..Len(case.said) : case.said[i] = template})

\* C18: for a numeric field with at least 5 values whose average is <= 0,
\* neither a high-variability nor a low-variability insight is emitted.
C18_NoVariabilityAtOrBelowZero ==
    \A field \in StatFields :
        LET case == StatCase(field)
        IN  (Len(case.values) >= 5 /\ case.total <= 0)
                => /\ TimesSaid(case, "shows high variability") = 0
                   /\ TimesSaid(case, "shows low variability") = 0

NumberSaid(case, template) ==
    case.numbers[CHOOSE i \in 1..Len(case.said) : case.said[i] = template]

\* The lowercased field name contains revenue, profit, sales or income
NamesMoney(field) ==
    \/ Contains(Lower(field), s_revenue)
    \/ Contains(Lower(field), s_profit)
    \/ Contains(Lower(field), s_sales)
    \/ Contains(Lower(field), s_income)

\* C19: for each numeric field, generate_statistical_insights emits nothing
\* below 3 present values that are not None; from 3 values on it emits one
\* total, one average, one maximum and one minimum statement, and the
\* percent-spread statement iff the name contains revenue, profit, sales or
\* income, with (max - min) / min * 100 when min > 0 and 0 otherwise.
C19_FourStatementsFromThreeValues ==
    \A field \in StatFields :
        LET case == StatCase(field)
            n == Len(case.values)
            least == MinSeq(case.values)
            most == MaxSeq(case.values)
        IN  IF n < 3 THEN case.said = <<>>
            ELSE /\ TimesSaid(case, "Total") = 1
                 /\ TimesSaid(case, "Average") = 1
                 /\ TimesSaid(case, "Maximum") = 1
                 /\ TimesSaid(case, "Minimum") = 1
                 /\ NumberSaid(case, "Total") = 100 * case.total
                 /\ NumberSaid(case, "Average") = Fmt2(Rat(case.total, n))
                 /\ NumberSaid(case, "Maximum") = 100 * most
                 /\ NumberSaid(case, "Minimum") = 100 * least
                 /\ TimesSaid(case, "difference between the highest and lowest")
                        = IF NamesMoney(field) THEN 1 ELSE 0
                 /\ NamesMoney(field) =>
                        NumberSaid(case, "difference between the highest and lowest")
                            = IF least > 0
                              THEN Fmt1(Rat(100 * (most - least), least))
                              ELSE 0

\* sales has 3 values or more, the least of them above 0 and below the
\* largest, and cost has 3 values or more too
C19_Witness ==
    /\ StatFields = {s_sales, s_cost}
    /\ Len(StatCase(s_sales).values) >= 3
    /\ MinSeq(StatCase(s_sales).values) > 0
    /\ MaxSeq(StatCase(s_sales).values) > MinSeq(StatCase(s_sales).values)
    /\ Len(StatCase(s_cost).values) >= 3
    /\ TimesSaid(StatCase(s_cost), "difference between the highest and lowest") = 0

\* sales has 3 values or more, the least of them below 0
C19_WitnessBelowZero ==
    /\ s_sales \in StatFields
    /\ Len(StatCase(s_sales).values) >= 3
    /\ MinSeq(StatCase(s_sales).values) < 0
    /\ TimesSaid(StatCase(s_sales), "difference between the highest and lowest") = 1

\* sales is a numeric field with 2 values, and nothing is said of it
C19_WitnessTwoValues ==
    /\ s_sales \in StatFields
    /\ Len(StatCase(s_sales).values) = 2
    /\ StatCase(s_sales).said = <<>>

(***************************************************************************)
(* C20: the segments of the recent-period comparison                       *)
(***************************************************************************)

SegmentTemplates ==
    {"shows a strong positive trend", "shows a concerning downward trend"}

\* The segments the claim describes for n pairs, as sets of positions 1..n in
\* date order: k = min(4, n div 2) runs of n div k positions, the last run
\* taking what is left
ClaimedSegments(n) ==
    LET k == MinOf(4, n \div 2)
        size == n \div k
    IN  [i \in 1..k |->
            IF i < k THEN ((i - 1) * size + 1)..(i * size)
            ELSE ((k - 1) * size + 1)..n]

\* What the claim says of one numeric field: its (date, value) pairs, whether
\* they can be sorted and converted, the pairs in ascending order of the
\* dates, the averages of the first and the last claimed segment, and the
\* segment statements returned
SegmentCase(field) ==
    LET date_field == identify_date_fields(data.items).val[1]
        pairs == SelectSeq(data.items, LAMBDA it : is_data_point(it, date_field, field))
        n == Len(pairs)
        orderable ==
            \A i, j \in 1..n :
                comparable(Get(pairs[i].d, date_field), Get(pairs[j].d, date_field))
        coercible == \A i \in 1..n : float_ok(Get(pairs[i].d, field))
        regular == orderable /\ coercible
        points == sort_points(data_points_of(data.items, date_field, field))
        segs == ClaimedSegments(n)
        total(positions) ==
            LET RECURSIVE add(_)
                add(ps) == IF ps = {} THEN 0
                           ELSE LET p == CHOOSE q \in ps : TRUE
                                IN  points[p].v + add(ps \ {p})
            IN  add(positions)
    IN  [ pairs |-> n,
          regular |-> regular,
          first |-> IF regular /\ n >= 6
                    THEN Rat(total(segs[1]), Cardinality(segs[1])) ELSE RZero,
          last |-> IF regular /\ n >= 6
                   THEN Rat(total(segs[Len(segs)]), Cardinality(segs[Len(segs)]))
                   ELSE RZero,
          said |-> [t \in SegmentTemplates |->
                       \E k \in 1..Len(result.val) :
                           /\ result.val[k].t = t
                           /\ result.val[k].f = printed(field)] ]

\* change > bound and change < bound for the change from first to last in
\* percent, the change being 0 when first is not positive
ChangeAbove(first, last, bound) ==
    IF RPositive(first)
    THEN 100 * (last[1] * first[2] - first[1] * last[2]) > bound * first[1] * last[2]
    ELSE 0 > bound

ChangeBelow(first, last, bound) ==
    IF RPositive(first)
    THEN 100 * (last[1] * first[2] - first[1] * last[2]) < bound * first[1] * last[2]
    ELSE 0 < bound

C20_WitnessDownward ==
    /\ pc = "trended"
    /\ \E f \in TrendFields :
          /\ SegmentCase(f).pairs = 6
          /\ SegmentCase(f).regular
          /\ SegmentCase(f).said["shows a concerning downward trend"]

\* Six or more pairs whose change stayed within 15 percent: no statement
C20_WitnessQuiet ==
    /\ pc = "trended"
    /\ \E f \in TrendFields :
          /\ SegmentCase(f).pairs >= 6
          /\ SegmentCase(f).regular
          /\ SegmentCase(f).first # SegmentCase(f).last
          /\ \A t \in SegmentTemplates : ~SegmentCase(f).said[t]

\* Fewer than six pairs: an overall statement but no segment statement
C20_WitnessShort ==
    /\ pc = "trended"
    /\ \E f \in TrendFields :
          /\ SegmentCase(f).pairs \in 3..5
          /\ TrendCase(f).statements # {}
          /\ \A t \in SegmentTemplates : ~SegmentCase(f).said[t]

(***************************************************************************)
(* generate_category_insights as analyze_data calls it.  The lists of the  *)
(* first family have a type and a sales field: each record opens a group   *)
(* of its own or joins the group of the first record, with a sales value   *)
(* on both sides of the thresholds.  The lists of the second family mix    *)
(* records with a missing or None cell, a type that is a number, and a     *)
(* region field ahead of the type.  The lists of the third family have     *)
(* five records of which the last holds a sales value float() rejects.     *)
(***************************************************************************)

MaxCatRecs == 4

MaxOddRecs == 3

s_C == <<"C">>

CatNames == <<s_A, s_B, s_C, s_D, s_a, s_b>>

CatValues == {-1, 1, 2, 3, 4}

CatRec(type, sales) == Dict(<<Entry(s_type, type), Entry(s_sales, sales)>>)

OddCatRecs ==
    { CatRec(PyStr(s_A), PyInt(1)),
      CatRec(PyStr(s_B), PyInt(3)),
      CatRec(Null, PyInt(2)),
      CatRec(PyStr(s_A), Null),
      Dict(<<Entry(s_type, PyStr(s_B))>>),
      CatRec(PyInt(1), PyInt(2)),
      CatRec(PyStr(<<"1">>), PyInt(4)),
      Dict(<<Entry(s_region, PyStr(s_a)), Entry(s_type, PyStr(s_A)), Entry(s_sales, PyInt(1))>>),
      Dict(<<Entry(s_region, PyStr(s_b)), Entry(s_type, PyStr(s_A)), Entry(s_sales, PyInt(3))>>) }

DriftCatRecs ==
    {CatRec(PyStr(t), PyInt(v)) : t \in {s_A, s_B}, v \in {1, 3}}

InitCategory ==
    /\ pc = "start"
    /\ \/ \E n \in 1..MaxCatRecs :
             \E joins \in [2..n -> BOOLEAN], sales \in [1..n -> CatValues] :
                 data = List([i \in 1..n |->
                                 CatRec(PyStr(CatNames[IF i > 1 /\ ~joins[i] THEN i ELSE 1]),
                                        PyInt(sales[i]))])
       \/ \E n \in 1..MaxOddRecs : \E l \in [1..n -> OddCatRecs] : data = List(l)
       \/ \E l \in [1..4 -> DriftCatRecs], t \in {s_A, s_B} :
             data = List(l \o <<CatRec(PyStr(t), PyStr(s_x))>>)
    /\ result = Raised
    /\ prev = Raised

\* category_insights = generate_category_insights(data, category_fields, numeric_fields)
GenerateCategoryInsights ==
    /\ pc = "start"
    /\ result' = Ok(generate_category_insights(data.items,
                                               identify_category_fields(data.items).val,
                                               identify_numeric_fields(data.items).val))
    /\ pc' = "compared"
    /\ UNCHANGED <<data, prev>>

NextCategory == GenerateCategoryInsights

SpecCategory == InitCategory /\ [][NextCategory]_vars

\* What the claims say of one numeric field: the groups of the first
\* category field with data (the str of the category of every record that
\* holds both cells, neither None), whether all their values convert, the
\* average of a group, the record that opens a group, and what was said of
\* the field
CategoryCase(field) ==
    LET category_field == identify_category_fields(data.items).val[1]
        points == SelectSeq(data.items,
                            LAMBDA it : is_category_point(it, category_field, field))
        name_of(it) == py_str(Get(it.d, category_field))
        groups == {name_of(points[i]) : i \in 1..Len(points)}
        average(g) ==
            LET own == SelectSeq(points, LAMBDA it : name_of(it) = g)
                values == [i \in 1..Len(own) |-> to_float(Get(own[i].d, field))]
            IN  Rat(SumSeq(values), Len(own))
        converts == \A i \in 1..Len(points) : float_ok(Get(points[i].d, field))
    IN  [ groups |-> groups,
          converts |-> converts,
          average |-> IF converts THEN [g \in groups |-> average(g)] ELSE <<>>,
          opened |-> [g \in groups |->
                         CHOOSE i \in 1..Len(points) :
                             /\ name_of(points[i]) = g
                             /\ \A j \in 1..(i - 1) : name_of(points[j]) # g],
          said |-> SelectSeq(result.val, LAMBDA insight : insight.f = printed(field)) ]

\* The numeric fields, when there is a category field
CategoryFields ==
    IF pc = "compared" /\ identify_category_fields(data.items).val # <<>>
    THEN Range(identify_numeric_fields(data.items).val)
    ELSE {}

\* The statements of one template among what was said of a field
SaidOf(case, template) == SelectSeq(case.said, LAMBDA insight : insight.t = template)

\* The averages of a case are all at most (at least) the average of group g
IsTop(case, g) == \A h \in case.groups : ~RLess(case.average[g], case.average[h])

IsBottom(case, g) == \A h \in case.groups : ~RLess(case.average[h], case.average[g])

\* bottom > 0 and (top - bottom) / bottom * 100 > 50 for the averages of a
\* top and a bottom group
GapOver50(case) ==
    \E g, h \in case.groups :
        /\ IsTop(case, g)
        /\ IsBottom(case, h)
        /\ RPositive(case.average[h])
        /\ RLess(Rat(50, 1), PercentOver(case.average[g], case.average[h]))

\* C21 as stated: nothing below 2 groups with data; from 2 groups on, one
\* best-performer and one lowest-performer statement, naming a group of
\* maximum and of minimum average, and the gap statement exactly when the
\* bottom average is > 0 and the gap is over 50 percent.
C21_BestAndLowestFromTwoGroups ==
    \A f \in CategoryFields :
        LET case == CategoryCase(f)
            best == SaidOf(case, "best performing category")
            lowest == SaidOf(case, "lowest performing category")
            gap == SaidOf(case, "significant performance gap")
        IN  IF Cardinality(case.groups) < 2 THEN case.said = <<>>
            ELSE /\ Len(best) = 1
                 /\ Len(lowest) = 1
                 /\ case.converts =>
                        /\ best[1].c \in case.groups /\ IsTop(case, best[1].c)
                        /\ lowest[1].c \in case.groups /\ IsBottom(case, lowest[1].c)
                        /\ Len(gap) = (IF GapOver50(case) THEN 1 ELSE 0)

\* The sum of the averages of the groups of a case
RECURSIVE SumOfGroups(_, _)
SumOfGroups(case, groups) ==
    IF groups = {} THEN RZero
    ELSE LET g == CHOOSE h \in groups : TRUE
         IN  RAdd(case.average[g], SumOfGroups(case, groups \ {g}))

\* Group g stands before group h in descending order of the averages,
\* groups of one average in the order in which the records open them
RanksBefore(case, g, h) ==
    \/ RLess(case.average[h], case.average[g])
    \/ /\ ~RLess(case.average[g], case.average[h])
       /\ case.opened[g] < case.opened[h]

\* part is more than percent percent of a total that is positive
ShareOver(part, total, percent) ==
    /\ RPositive(total)
    /\ RLess(Rat(percent, 1), PercentOf(part, total))

\* C22: of a numeric field whose values convert, at most one "dominates"
\* statement is made, only with 3 groups or more, and it names the first
\* group in descending order of the averages whose share of the summed
\* averages is over 40 percent (it is made whenever there is such a group);
\* "high concentration" is said exactly when there are 4 groups or more and
\* the two groups ranked first hold over 70 percent of the summed averages.
\* A field with a value float() rejects gets neither.
C22_DominanceAndConcentration ==
    \A f \in CategoryFields :
        LET case == CategoryCase(f)
            groups == case.groups
            total == SumOfGroups(case, groups)
            dominates == SaidOf(case, "category dominates")
            concentrated == SaidOf(case, "Top two categories represent")
            over == {g \in groups : ShareOver(case.average[g], total, 40)}
        IN  IF ~case.converts THEN dominates = <<>> /\ concentrated = <<>>
            ELSE /\ Len(dominates) <= 1
                 /\ Len(dominates) = 1 <=> (Cardinality(groups) >= 3 /\ over # {})
                 /\ Len(dominates) = 1 =>
                        /\ dominates[1].c \in over
                        /\ \A g \in over \ {dominates[1].c} :
                              RanksBefore(case, dominates[1].c, g)
                 /\ Len(concentrated) <= 1
                 /\ Len(concentrated) = 1 <=>
                        /\ Cardinality(groups) >= 4
                        /\ \E g, h \in groups :
                              /\ g # h
                              /\ \A k \in groups \ {g, h} :
                                    RanksBefore(case, g, k) /\ RanksBefore(case, h, k)
                              /\ ShareOver(RAdd(case.average[g], case.average[h]), total, 70)

\* Three groups with averages 2, 2 and 1: no share is over 40 percent and
\* nothing dominates
C22_Witness ==
    /\ s_sales \in CategoryFields
    /\ LET case == CategoryCase(s_sales)
       IN  /\ case.converts
           /\ case.groups = {s_A, s_B, s_C}
           /\ case.average[s_A] = Rat(2, 1)
           /\ case.average[s_B] = Rat(1, 1)
           /\ case.average[s_C] = Rat(2, 1)
           /\ SaidOf(case, "category dominates") = <<>>
           /\ Len(case.said) = 3

\* Two groups of the highest average, each over 40 percent: the one opened
\* first is named
C22_WitnessFirstOfTwo ==
    /\ s_sales \in CategoryFields
    /\ LET case == CategoryCase(s_sales)
       IN  /\ case.converts
           /\ case.groups = {s_A, s_B, s_C}
           /\ case.average[s_A] = Rat(1, 1)
           /\ case.average[s_B] = Rat(4, 1)
           /\ case.average[s_C] = Rat(4, 1)
           /\ Len(SaidOf(case, "category dominates")) = 1
           /\ SaidOf(case, "category dominates")[1].c = s_B

\* Four groups with averages 4, 3, 2 and 1: the two first hold exactly 70
\* percent and no concentration is said
C22_WitnessSeventy ==
    /\ s_sales \in CategoryFields
    /\ LET case == CategoryCase(s_sales)
       IN  /\ case.converts
           /\ Cardinality(case.groups) = 4
           /\ {case.average[g] : g \in case.groups} = {Rat(4, 1), Rat(3, 1), Rat(2, 1), Rat(1, 1)}
           /\ SaidOf(case, "Top two categories represent") = <<>>

\* Four groups whose two first hold over 70 percent: concentration is said
C22_WitnessConcentrated ==
    \E f \in CategoryFields :
        /\ CategoryCase(f).converts
        /\ Cardinality(CategoryCase(f).groups) = 4
        /\ Len(SaidOf(CategoryCase(f), "Top two categories represent")) = 1

\* Three groups whose two first hold over 70 percent: no concentration
C22_WitnessThreeGroups ==
    /\ s_sales \in CategoryFields
    /\ LET case == CategoryCase(s_sales)
       IN  /\ case.converts
           /\ case.groups = {s_A, s_B, s_C}
           /\ case.average[s_A] = Rat(4, 1)
           /\ case.average[s_B] = Rat(4, 1)
           /\ case.average[s_C] = Rat(1, 1)
           /\ SaidOf(case, "Top two categories represent") = <<>>

\* Averages that sum to 0 or less: neither statement
C22_WitnessTotalNotPositive ==
    \E f \in CategoryFields :
        LET case == CategoryCase(f)
        IN  /\ case.converts
            /\ Cardinality(case.groups) = 4
            /\ ~RPositive(SumOfGroups(case, case.groups))
            /\ Len(case.said) = 2

(***************************************************************************)
(* generate_complex_insights as analyze_data calls it, on lists of records *)
(* with a date, a type and a sales field.  The records come in a fixed     *)
(* order of cells: type A on dates a and b, type B on dates a and b, type  *)
(* A on date b again, then a type of one date; the sales are free.  The    *)
(* last date of type B may be a number next to a string, and the fifth     *)
(* record may hold a value float() rejects.                                *)
(***************************************************************************)

MaxCellRecs == 5

CellDates == <<s_a, s_b, s_a, s_b, s_b, s_a, s_b>>

CellTypes == <<s_A, s_A, s_B, s_B, s_A, s_C, s_D>>

CellValues == {PyInt(0), PyInt(1), PyInt(2), PyInt(3)}

InitGrowth ==
    /\ pc = "start"
    /\ \E n \in 1..MaxCellRecs :
          \E sales \in [1..n -> CellValues \cup {PyStr(s_x)}], last \in {PyStr(s_b), PyInt(2)} :
              /\ \A i \in 1..n : sales[i] = PyStr(s_x) => i = 5
              /\ data = List([i \in 1..n |->
                                 GrowthRec(IF i = 4 THEN last ELSE PyStr(CellDates[i]),
                                           PyStr(CellTypes[i]), sales[i])])
    /\ result = Raised
    /\ prev = Raised

\* complex_insights = generate_complex_insights(data, date_fields, category_fields,
\* numeric_fields)
GenerateComplexInsights ==
    /\ pc = "start"
    /\ result' = Ok(generate_complex_insights(data.items,
                                              identify_date_fields(data.items).val,
                                              identify_category_fields(data.items).val,
                                              identify_numeric_fields(data.items).val))
    /\ pc' = "grown"
    /\ UNCHANGED <<data, prev>>

NextGrowth == GenerateComplexInsights

SpecGrowth == InitGrowth /\ [][NextGrowth]_vars

\* What the claim says of one numeric field: the categories with at least
\* 2 distinct dates, whether the dates of each of them can be ordered and
\* the values of the field convert, the growth rate of a category (from the
\* average on its earliest date to the average on its latest date, in
\* percent, 0 when the earlier average is <= 0), and what was said
GrowthCase(field) ==
    LET date_field == identify_date_fields(data.items).val[1]
        category_field == identify_category_fields(data.items).val[1]
        points == SelectSeq(data.items,
                      LAMBDA it : is_organized_point(it, date_field, category_field, field))
        name_of(it) == py_str(Get(it.d, category_field))
        date_of(it) == Get(it.d, date_field)
        own(g) == SelectSeq(points, LAMBDA it : name_of(it) = g)
        dates(g) == {date_of(own(g)[i]) : i \in 1..Len(own(g))}
        grown == {g \in {name_of(points[i]) : i \in 1..Len(points)} :
                     \E d, e \in dates(g) : ~value_equal(d, e)}
        average(g, date) ==
            LET at == SelectSeq(own(g), LAMBDA it : value_equal(date_of(it), date))
                values == [i \in 1..Len(at) |-> to_float(Get(at[i].d, field))]
            IN  Rat(SumSeq(values), Len(at))
        rate(g) ==
            LET earliest == CHOOSE d \in dates(g) : \A e \in dates(g) : ~value_less(e, d)
                latest == CHOOSE d \in dates(g) : \A e \in dates(g) : ~value_less(d, e)
            IN  IF RPositive(average(g, earliest))
                THEN PercentOver(average(g, latest), average(g, earliest))
                ELSE RZero
        regular ==
            /\ \A i \in 1..Len(points) : float_ok(Get(points[i].d, field))
            /\ \A g \in grown : \A d, e \in dates(g) : comparable(d, e)
    IN  [ grown |-> grown,
          regular |-> regular,
          rate |-> IF regular THEN [g \in grown |-> rate(g)] ELSE <<>>,
          said |-> SelectSeq(result.val, LAMBDA insight : insight.f = printed(field)) ]

\* The numeric fields, when there is a date field and a category field
GrowthFields ==
    IF /\ pc = "grown"
       /\ identify_date_fields(data.items).val # <<>>
       /\ identify_category_fields(data.items).val # <<>>
    THEN Range(identify_numeric_fields(data.items).val)
    ELSE {}

\* What was said of a field whose categories have the rates of the case:
\* first the fastest category, then the slowest one as a decline when its
\* rate is negative, then the gap when the two rates are over 50 apart
SaidAsClaimed(case) ==
    /\ Len(case.said) \in {2, 3}
    /\ case.said[1].t = "fastest growing category"
    /\ case.said[1].c \in case.grown
    /\ \A g \in case.grown : ~RLess(case.rate[case.said[1].c], case.rate[g])
    /\ case.said[1].a = <<Fmt1(case.rate[case.said[1].c])>>
    /\ case.said[2].c \in case.grown
    /\ \A g \in case.grown : ~RLess(case.rate[g], case.rate[case.said[2].c])
    /\ case.said[2].t = (IF RLess(case.rate[case.said[2].c], RZero)
                         THEN "is showing a decline" ELSE "slowest growing category")
    /\ case.said[2].a = <<Abs(Fmt1(case.rate[case.said[2].c]))>>
    /\ Len(case.said) = 3 <=>
          RLess(Rat(50, 1), RSub(case.rate[case.said[1].c], case.rate[case.said[2].c]))
    /\ Len(case.said) = 3 => case.said[3].t = "significant growth gap"

\* C23: statements only when at least 2 categories have at least 2 distinct
\* dates each, and then the fastest, the slowest (a decline when negative)
\* and, iff the two rates are more than 50 apart, the gap; read with the
\* allowance that a category whose dates mix strings and numbers, or a value
\* float() rejects, leaves the field with no statement.
C23_GrowthWhenDatesOrder ==
    \A f \in GrowthFields :
        LET case == GrowthCase(f)
        IN  IF Cardinality(case.grown) < 2 \/ ~case.regular THEN case.said = <<>>
            ELSE SaidAsClaimed(case)

\* Rates of -100/3 and -250/3, exactly 50 apart, and the gap is said
C23_GapSaidAtFifty ==
    /\ s_sales \in GrowthFields
    /\ LET case == GrowthCase(s_sales)
       IN  /\ case.grown = {s_A, s_B}
           /\ case.regular
           /\ LET growth_diff == RSub(case.rate[s_B], case.rate[s_A])
              IN  ~RLess(growth_diff, Rat(50, 1)) /\ ~RLess(Rat(50, 1), growth_diff)
           /\ Len(case.said) = 3
           /\ case.said[3] = Insight("significant growth gap", printed(s_sales), <<>>,
                                     <<Fmt1(Rat(50, 1))>>)

\* Rates of 50 and 0: a fastest and a slowest growing category, no gap
C23_Witness ==
    /\ s_sales \in GrowthFields
    /\ LET case == GrowthCase(s_sales)
       IN  /\ case.grown = {s_A, s_B}
           /\ case.regular
           /\ case.rate[s_A] = Rat(100 * (3 - 2), 2)
           /\ case.rate[s_B] = Rat(100 * (1 - 1), 1)
           /\ Len(case.said) = 2
           /\ case.said[2].t = "slowest growing category"

\* A decline and a gap
C23_WitnessDecline ==
    \E f \in GrowthFields :
        /\ GrowthCase(f).regular
        /\ Len(GrowthCase(f).said) = 3
        /\ GrowthCase(f).said[2].t = "is showing a decline"

\* An earliest average of 0 under a later average that is positive: rate 0
C23_WitnessFromZero ==
    /\ s_sales \in GrowthFields
    /\ LET case == GrowthCase(s_sales)
       IN  /\ Cardinality(case.grown) = 2
           /\ case.regular
           /\ Get(data.items[1].d, s_sales) = PyInt(0)
           /\ Get(data.items[2].d, s_sales) = PyInt(3)
           /\ Len(data.items) = 4
           /\ case.rate[s_A] = RZero
           /\ case.said # <<>>

\* One category with 2 dates next to one with a single date: nothing said
C23_WitnessOneGrown ==
    \E f \in GrowthFields :
        /\ Cardinality(GrowthCase(f).grown) = 1
        /\ Len(data.items) >= 3
        /\ GrowthCase(f).said = <<>>

\* Two categories with 2 dates each, the dates of one a string and a
\* number: nothing said
C23_WitnessMixedDates ==
    \E f \in GrowthFields :
        /\ Cardinality(GrowthCase(f).grown) = 2
        /\ ~GrowthCase(f).regular
        /\ \A i \in 1..Len(data.items) : float_ok(Get(data.items[i].d, f))
        /\ GrowthCase(f).said = <<>>

(***************************************************************************)
(* The order of the charts                                                 *)
(***************************************************************************)

\* The place of a chart in the order of the generators: the category chart
\* is the bar chart of one series, the distribution chart the one of two
GeneratorOf(chart) ==
    CASE chart.type = "line" -> 1
      [] chart.type = "bar" /\ Len(chart.datasets) = 1 -> 2
      [] chart.type = "bar" /\ Len(chart.datasets) = 2 -> 3
      [] chart.type = "pie" -> 4
      [] chart.type = "scatter" -> 5
      [] OTHER -> 0

GeneratorsOf(charts) == [i \in 1..Len(charts) |-> GeneratorOf(charts[i])]

\* C24: the charts of the result are in the order time series (line),
\* category comparison (bar), distribution (bar), composition (pie),
\* correlation (scatter), each at most once, and the scatter chart is there
\* only if fewer than 2 of the four before it are.
C24_FixedOrderScatterLast ==
    pc = "visualized" =>
        LET made == GeneratorsOf(result.val)
        IN  /\ \A i \in 1..Len(made) : made[i] \in 1..5
            /\ \A i, j \in 1..Len(made) : i < j => made[i] < made[j]
            /\ (\E i \in 1..Len(made) : made[i] = 5)
                   => Cardinality({i \in 1..Len(made) : made[i] \in 1..4}) < 2

\* The scatter chart behind the distribution chart alone
C24_Witness ==
    /\ pc = "visualized"
    /\ GeneratorsOf(result.val) = <<3, 5>>

\* All four charts of the first generators, and no scatter chart although
\* the table has two numeric columns
C24_WitnessFour ==
    /\ pc = "visualized"
    /\ GeneratorsOf(result.val) = <<1, 2, 3, 4>>

\* The category chart and the pie chart without the two others
C24_WitnessCategoryAndPie ==
    /\ pc = "visualized"
    /\ GeneratorsOf(result.val) = <<2, 4>>

(***************************************************************************)
(* The dimensions of a list of records as the dashboard derives them       *)
(* twice: analyze_data through the field classifier, create_visualizations *)
(* through the column names of the table.  Every record of a list has the  *)
(* same keys, up to MaxDimKeys of them, and a number under each.           *)
(***************************************************************************)

MaxDimKeys == 3

MaxDimRecs == 2

DimNames ==
    { s_date, s_Date, s_sales_date, s_period, s_day, s_week,
      s_category, s_type, s_product_line, s_region, s_country, s_revenue }

InitDimensions ==
    /\ pc = "start"
    /\ \E k \in 1..MaxDimKeys, n \in 1..MaxDimRecs :
          \E keys \in [1..k -> DimNames] :
              /\ \A i, j \in 1..k : i < j => keys[i] # keys[j]
              /\ data = List([r \in 1..n |->
                                 Dict([i \in 1..k |-> Entry(keys[i], PyInt(r))])])
    /\ result = Raised
    /\ prev = Raised

\* insights = analyze_data(processed_data) and viz_data =
\* create_visualizations(processed_data), up to the dimensions each derives
DeriveDimensions ==
    /\ pc = "start"
    /\ result' = Ok([ date_fields |-> identify_date_fields(data.items).val,
                      category_fields |-> identify_category_fields(data.items).val,
                      date_columns |-> columns_with(DataFrame(data.items), chart_date_terms),
                      category_columns |->
                          columns_with(DataFrame(data.items), chart_category_terms) ])
    /\ pc' = "derived"
    /\ UNCHANGED <<data, prev>>

NextDimensions == DeriveDimensions

SpecDimensions == InitDimensions /\ [][NextDimensions]_vars

\* C25: on records with the same keys, a column is date-like for the
\* time-series chart iff identify_date_fields returns it, and category-like
\* for the category and composition charts iff identify_category_fields
\* returns it.
C25_ChartsAndClassifierAgree ==
    pc = "derived" =>
        /\ Range(result.val.date_columns) = Range(result.val.date_fields)
        /\ Range(result.val.category_columns) = Range(result.val.category_fields)

\* A column 'region' next to a column 'revenue': a category field of the
\* classifier and no category column of the charts
C25_RegionOnlyForClassifier ==
    /\ pc = "derived"
    /\ Keys(data.items[1].d) = <<s_region, s_revenue>>
    /\ result.val.category_fields = <<s_region>>
    /\ result.val.category_columns = <<>>

(***************************************************************************)
(* The table behind the time-series generator                              *)
(***************************************************************************)

\* The table create_visualizations builds from the records
BuiltTable == DataFrame(data.items)

\* What the category, distribution and composition generators return on a
\* table, in the order of the calls
ChartsAfterTimeSeries(df, reversed) ==
    appended(appended(appended(<<>>, create_category_comparison_chart(df, reversed)),
                      create_distribution_chart(df)),
             create_composition_chart(df, reversed))

\* The bar and pie charts of the result
BarAndPieCharts == SelectSeq(result.val, LAMBDA chart : chart.type \in {"bar", "pie"})

\* C26: the time-series generator leaves the shared table unchanged, so
\* the numeric columns and the values the category, distribution and
\* composition generators see, and the charts they produce, are those of
\* the table as it was built.
C26_TimeSeriesLeavesTable ==
    (pc = "visualized" /\ data.t = "list" /\ data.items # <<>> /\ ~frame_raises(data.items)) =>
        /\ PieTable = BuiltTable
        /\ numeric_cols_of(PieTable) = numeric_cols_of(BuiltTable)
        /\ \E reversed \in BOOLEAN :
              BarAndPieCharts = ChartsAfterTimeSeries(BuiltTable, reversed)

\* A date column of numbers: numeric when the table is built, no longer
\* numeric behind the time-series generator, and the category chart is a
\* chart of revenue where the table as built gives a chart of date
C26_NumberDateLeavesNumericColumns ==
    /\ pc = "visualized"
    /\ data.t = "list" /\ data.items # <<>> /\ ~frame_raises(data.items)
    /\ numeric_cols_of(BuiltTable) = <<s_date, s_revenue, s_expenses>>
    /\ numeric_cols_of(PieTable) = <<s_revenue, s_expenses>>
    /\ Len(result.val) >= 1
    /\ result.val[1].type = "bar"
    /\ result.val[1].title = <<s_revenue, s_category>>
    /\ create_category_comparison_chart(BuiltTable, FALSE).title = <<s_date, s_category>>

(***************************************************************************)
(* detect_financial_structure applied to what it returned                  *)
(***************************************************************************)

RemapOnce ==
    /\ pc = "start"
    /\ result' = detect_financial_structure(data)
    /\ pc' = IF result'.exc THEN "done" ELSE "remapped"
    /\ UNCHANGED <<data, prev>>

RemapTwice ==
    /\ pc = "remapped"
    /\ prev' = result
    /\ result' = detect_financial_structure(result.val)
    /\ pc' = "remapped again"
    /\ UNCHANGED data

NextRemap == RemapOnce \/ RemapTwice

SpecRemap == InitFin /\ [][NextRemap]_vars

\* Two results of detect_financial_structure are equal as Python compares
\* them: the same value that is no list, or lists of records that hold the
\* same keys with the same values, record by record (the order of the keys
\* in a record does not count)
SameRecords(x, y) ==
    IF x.t # "list" \/ y.t # "list" THEN x = y
    ELSE /\ Len(x.items) = Len(y.items)
         /\ \A i \in 1..Len(x.items) :
               IF x.items[i].t = "dict" /\ y.items[i].t = "dict"
               THEN Range(x.items[i].d) = Range(y.items[i].d)
               ELSE x.items[i] = y.items[i]

\* C27: detect_financial_structure applied to its own output returns that
\* output unchanged.
C27_RemapIdempotent ==
    pc = "remapped again" => (~result.exc /\ SameRecords(result.val, prev.val))

\* 'sales_date' claimed by revenue and then by date, 'costs' by expenses:
\* the first pass leaves 'sales' alone and the second renames it to revenue
C27_SecondPassRenamesSales ==
    /\ pc = "remapped again"
    /\ data.t = "list" /\ Len(data.items) = 1
    /\ Keys(data.items[1].d) = <<s_sales_date, s_sales, s_costs>>
    /\ Keys(prev.val.items[1].d) = <<s_date, s_expenses, s_sales>>
    /\ Keys(result.val.items[1].d) = <<s_revenue, s_expenses, s_date>>

\* A second pass that changes nothing but the order of the keys
C27_SecondPassReorders ==
    /\ pc = "remapped again"
    /\ SameRecords(result.val, prev.val)
    /\ result.val # prev.val

(***************************************************************************)
(* The routes.  The stores of the application are the DataFile and Report  *)
(* tables, the processed-data snapshots and the uploaded files under       *)
(* UPLOAD_FOLDER, the documents under REPORT_FOLDER, and the data file id  *)
(* of the session (0: none).  In SpecRoutes data holds the stores, prev    *)
(* the stores as they were before the last request, result the response   *)
(* to it and pc the route it went to.  An uploaded file is its name and    *)
(* what reading it gives: records, no record at all, or an exception of    *)
(* the parser.                                                             *)
(***************************************************************************)

MaxDataFiles == 2

MaxReports == 2

s_csv == <<"c", "s", "v">>

s_xlsx == <<"x", "l", "s", "x">>

s_xls == <<"x", "l", "s">>

s_json == <<"j", "s", "o", "n">>

ALLOWED_EXTENSIONS == {s_csv, s_xlsx, s_xls, s_json}

\* filename.rsplit('.', 1)[1] of a filename with a dot
AfterLastDot(filename) ==
    LET dot == CHOOSE i \in 1..Len(filename) :
                   filename[i] = "." /\ \A h \in (i + 1)..Len(filename) : filename[h] # "."
    IN  SubSeq(filename, dot + 1, Len(filename))

validate_file(filename, allowed_extensions) ==
    /\ Contains(filename, <<".">>)
    /\ Lower(AfterLastDot(filename)) \in allowed_extensions

\* werkzeug's secure_filename on letters, dots and underscores: the dots
\* and underscores at both ends are stripped
RECURSIVE secure_filename(_)
secure_filename(filename) ==
    IF filename = <<>> THEN filename
    ELSE IF Head(filename) \in {".", "_"} THEN secure_filename(Tail(filename))
    ELSE IF filename[Len(filename)] \in {".", "_"}
    THEN secure_filename(SubSeq(filename, 1, Len(filename) - 1))
    ELSE filename

DataFileRow(filename, file_type) == [filename |-> filename, file_type |-> file_type]

ReportRow(data_file_id, pdf_path, excel_path) ==
    [data_file_id |-> data_file_id, pdf_path |-> pdf_path, excel_path |-> excel_path]

\* f"report_{report.id}.pdf" and f"report_{report.id}.xlsx"
pdf_filename_of(report_id) == <<"pdf", report_id>>

excel_filename_of(report_id) == <<"xlsx", report_id>>

\* A column without a value
NoPath == <<>>

Stores(data_files, reports, snapshots, uploads, documents, session) ==
    [ data_files |-> data_files, reports |-> reports, snapshots |-> snapshots,
      uploads |-> uploads, documents |-> documents, session |-> session ]

Response(status, flashed) == Ok([status |-> status, flashed |-> flashed])

\* abort(404), for a row or a file that is not there
NotFound(missing) == Ok([status |-> "404", flashed |-> "", missing |-> missing])

\* The handler of /upload up to its response: the stores it leaves and the
\* response.  The DataFile row is committed before the file is processed.
upload_file(stores, has_part, filename, content) ==
    IF ~has_part
    THEN [stores |-> stores, response |-> Response("redirect", "No file part")]
    ELSE IF filename = <<>>
    THEN [stores |-> stores, response |-> Response("redirect", "No selected file")]
    ELSE IF ~validate_file(filename, ALLOWED_EXTENSIONS)
    THEN [stores |-> stores, response |-> Response("redirect", "Invalid file type")]
    ELSE LET secured == secure_filename(filename)
             saved == [stores EXCEPT !.uploads = @ \cup {secured}]
             data_file_id == Len(stores.data_files) + 1
             added == [saved EXCEPT !.data_files =
                          Append(@, DataFileRow(secured, Lower(AfterLastDot(secured))))]
         IN  IF ~Contains(secured, <<".">>)
             THEN [stores |-> saved, response |-> Response("redirect", "Error processing file")]
             ELSE IF content = "unreadable"
             THEN [stores |-> added, response |-> Response("redirect", "Error processing file")]
             ELSE [stores |-> [added EXCEPT !.session = data_file_id,
                                            !.snapshots = @ \cup {<<data_file_id, content>>}],
                   response |-> Response("dashboard", "File successfully uploaded and processed")]

\* The processed data stored for a data file: {} when there is no snapshot
snapshot_of(stores, data_file_id) ==
    {s \in stores.snapshots : s[1] = data_file_id}

\* generate_pdf_report: the document is there when the build went through
generate_pdf_report(documents, report_id, builds) ==
    IF builds THEN documents \cup {pdf_filename_of(report_id)} ELSE documents

\* generate_excel_report: False without a document for data that is no
\* list or an empty one, and when the writer raises
generate_excel_report(documents, report_id, content, writes) ==
    IF content = "records" /\ writes
    THEN documents \cup {excel_filename_of(report_id)}
    ELSE documents

\* The handler of /generate-report: the two return values of the
\* generators are not looked at
generate_report(stores, builds, writes) ==
    IF stores.session = 0
    THEN [stores |-> stores, response |-> Response("index", "No data available")]
    ELSE IF snapshot_of(stores, stores.session) = {}
    THEN [stores |-> stores, response |-> Response("index", "Data file not found")]
    ELSE LET content == (CHOOSE s \in snapshot_of(stores, stores.session) : TRUE)[2]
             report_id == Len(stores.reports) + 1
             with_pdf == generate_pdf_report(stores.documents, report_id, builds)
             with_excel == generate_excel_report(with_pdf, report_id, content, writes)
         IN  [stores |-> [stores EXCEPT
                             !.reports = Append(@, ReportRow(stores.session,
                                                             pdf_filename_of(report_id),
                                                             excel_filename_of(report_id))),
                             !.documents = with_excel],
              response |-> Response("report_detail", "Report generated successfully")]

\* send_from_directory(REPORT_FOLDER, path): the file, or 404 without it
send_from_directory(stores, path) ==
    IF path \in stores.documents THEN Response("attachment", path)
    ELSE NotFound(path)

\* The handler of /download/<file_type>/<report_id>
download_report(stores, file_type, report_id) ==
    IF report_id \notin 1..Len(stores.reports) THEN NotFound(<<"report", report_id>>)
    ELSE LET report == stores.reports[report_id]
         IN  IF file_type = "pdf" /\ report.pdf_path # NoPath
             THEN send_from_directory(stores, report.pdf_path)
             ELSE IF file_type = "excel" /\ report.excel_path # NoPath
             THEN send_from_directory(stores, report.excel_path)
             ELSE Response("report_detail", "Requested file not found")

s_a_csv == <<"a", ".", "c", "s", "v">>

s_b_csv == <<"b", ".", "c", "s", "v">>

s_a_xlS == <<"a", ".", "x", "l", "S">>

s_a_b_json == <<"a", ".", "b", ".", "j", "s", "o", "n">>

s_a_x == <<"a", ".", "x">>

s_dot_csv == <<".", "c", "s", "v">>

UploadNames == {<<>>, s_a, s_a_x, s_a_csv, s_b_csv, s_a_xlS, s_a_b_json, s_dot_csv}

UploadContents == {"records", "empty", "unreadable"}

InitRoutes ==
    /\ pc = "start"
    /\ data = Stores(<<>>, <<>>, {}, {}, {}, 0)
    /\ prev = data
    /\ result = Raised

UploadFile ==
    /\ Len(data.data_files) < MaxDataFiles
    /\ \E has_part \in BOOLEAN, filename \in UploadNames, content \in UploadContents :
          LET done == upload_file(data, has_part, filename, content)
          IN  /\ data' = done.stores
              /\ result' = done.response
    /\ prev' = data
    /\ pc' = "upload"

GenerateReport ==
    /\ Len(data.reports) < MaxReports
    /\ \E builds \in BOOLEAN, writes \in BOOLEAN :
          LET done == generate_report(data, builds, writes)
          IN  /\ data' = done.stores
              /\ result' = done.response
    /\ prev' = data
    /\ pc' = "generate-report"

DownloadReport ==
    /\ \E file_type \in {"pdf", "excel", "csv"}, report_id \in 1..MaxReports :
          result' = download_report(data, file_type, report_id)
    /\ prev' = data
    /\ pc' = "download"
    /\ UNCHANGED data

NextRoutes == UploadFile \/ GenerateReport \/ DownloadReport

SpecRoutes == InitRoutes /\ [][NextRoutes]_vars

\* C28: a persisted Report has pdf_path (excel_path) set only if the PDF
\* (Excel) document was generated, so a download of a report whose path is
\* set finds the file.
C28_PathSetOnlyWithDocument ==
    /\ \A r \in 1..Len(data.reports) :
          /\ data.reports[r].pdf_path # NoPath => data.reports[r].pdf_path \in data.documents
          /\ data.reports[r].excel_path # NoPath
                 => data.reports[r].excel_path \in data.documents
    /\ pc = "download" =>
          \A r \in 1..Len(data.reports) :
              result \notin {NotFound(pdf_filename_of(r)), NotFound(excel_filename_of(r))}

\* A report of a file without a record: its excel_path is set, no Excel
\* document was written although the writer works, and the download of it
\* ends in 404
C28_ExcelPathWithoutDocument ==
    /\ pc = "download"
    /\ Len(data.reports) = 1
    /\ data.snapshots = {<<1, "empty">>}
    /\ data.reports[1].excel_path = excel_filename_of(1)
    /\ data.documents = {pdf_filename_of(1)}
    /\ result = NotFound(excel_filename_of(1))

\* The upload failed: the extension is not allowed, or processing raised
UploadFailed ==
    /\ pc = "upload"
    /\ result.val.flashed \in {"Invalid file type", "Error processing file"}

\* C29: a failed upload leaves the stores unchanged: no new DataFile row,
\* no processed-data snapshot, and the data file id of the session as it
\* was.
C29_FailedUploadChangesNothing ==
    UploadFailed =>
        /\ data.data_files = prev.data_files
        /\ data.snapshots = prev.snapshots
        /\ data.session = prev.session

\* A file that the parser rejects: the DataFile row is there, the session
\* and the snapshots are as they were
C29_RowOfUnreadableFile ==
    /\ UploadFailed
    /\ Len(data.data_files) = Len(prev.data_files) + 1
    /\ data.snapshots = prev.snapshots
    /\ data.session = prev.session

\* A file whose extension is not allowed: nothing has changed
C29_InvalidTypeChangesNothing ==
    /\ UploadFailed
    /\ result.val.flashed = "Invalid file type"
    /\ data = prev

(***************************************************************************)
(* The total of the pie chart                                              *)
(***************************************************************************)

\* The sum of the first numeric column over the rows that have a category
\* in the first category column, in the table the generator is handed
PieColumnTotal ==
    LET category_col == Column(PieTable, columns_with(PieTable, chart_category_terms)[1])
        numeric_col == Column(PieTable, numeric_cols_of(PieTable)[1])
    IN  SumOfRows(numeric_col,
                  {r \in 1..Len(category_col.values) : ~is_missing(category_col.values[r])})

\* C30: the slice values of the pie chart sum to the sum of the first
\* numeric column over all categories of the first category column, with
\* and without the row 'Other'.
C30_PieConservesTotal ==
    PieCase.drawn => SumSeq(PieCase.values) = PieColumnTotal

\* A pie chart of 10 categories, folded to 8 slices
C30_Witness ==
    /\ PieCase.drawn
    /\ Cardinality(PieCase.cats) = 10
    /\ Len(PieCase.values) = 8
    /\ PieCase.labels[8] = PyStr(s_Other)

\* A pie chart of 8 categories, not folded
C30_WitnessUnfolded ==
    /\ PieCase.drawn
    /\ Cardinality(PieCase.cats) = 8
    /\ Len(PieCase.values) = 8
    /\ PieCase.labels[8] # PyStr(s_Other)

\* A pie chart of a table with a row that has no category: the row is in no
\* slice and not in the total
C30_WitnessRowWithoutCategory ==
    /\ PieCase.drawn
    /\ \E i \in 1..Len(data.items) :
          /\ HasKey(data.items[i].d, s_category)
          /\ Get(data.items[i].d, s_category) = Null
    /\ PieColumnTotal > 0

=============================================================================
